---- MODULE Spec2Model ----
(***************************************************************************)
(* A model of the rule-evaluation core of GCS:                             *)
(*   - the nameable substitution engine  (model/gurps/nameables.go)        *)
(*   - ContainedWeightPrereq.Satisfied   (contained_weight_prereq.go)      *)
(*   - the SkillDefault resolver         (contained_weight_prereq.go)      *)
(*   - the content hasher: SkillDefault.Hash, ContainedWeightPrereq.Hash   *)
(*   - WeaponBonus: FeatureMapKey and its nameable keys (feature package)  *)
(*   - Clone of ContainedWeightPrereq and of WeaponBonus                   *)
(*   - SkillDefault.Equivalent and SkillDefault.SkillBased                 *)
(*   - Template.applyTemplateToSheet and Template.save (package ux)        *)
(* Each component has its own variables, initial condition, next-state     *)
(* relation and specification; a component's specification leaves the      *)
(* variables of the other components at their idle values.                 *)
(*                                                                         *)
(* Go strings are modelled as sequences of one-character strings, Go maps  *)
(* as functions, and fxp.Int by its raw fixed-point data (value * 10000).  *)
(***************************************************************************)
EXTENDS Integers, Sequences, FiniteSets, TLC

VARIABLES
    \* ---- nameables ----
    text,       \* the string handed to ExtractNameables / ApplyNameables
    m,          \* the replacement map (key -> value)
    existing,   \* the "existing" map handed to ExtractNameables
    nmPc,       \* "start", "applied" (one ApplyNameables), "reapplied" (two)
    out,        \* result of ApplyNameables(text, m)
    out2,       \* result of ApplyNameables(out, m)
    m0,         \* the map as it was before the last ExtractNameables
    \* ---- ContainedWeightPrereq ----
    prereq,     \* the ContainedWeightPrereq: Has, WeightCriteria
    tooltip,    \* the caller's tooltip buffer: the strings written so far
    call,       \* the last Satisfied call: its arguments and what it returned
    \* ---- SkillDefault resolver ----
    entity,     \* the Entity: its skills, bonuses, attributes and settings
    res,        \* the last resolution: its arguments and both paths' results
    \* ---- content hasher ----
    rules,      \* two rule objects (SkillDefault or ContainedWeightPrereq, maybe nil)
    hashers,    \* two hashers, one per rule object: the bytes written to each
    \* ---- WeaponBonus ----
    bonuses,    \* two WeaponBonus values
    keys,       \* per bonus, the outcome of its last FeatureMapKey call
    wbMap,      \* the nameable map handed to FillWithNameableKeys / ApplyNameableKeys
    wbLast,     \* the last nameable operation on bonuses[1] and the state before it
    \* ---- Clone ----
    heap,       \* the rule objects in memory, by address (1, 2, ...)
    cloned,     \* the last Clone call and the change made after it, if any
    \* ---- SkillDefault.Equivalent ----
    eq,         \* two SkillDefaults, a replacement map, and the last Equivalent call
    \* ---- Template.applyTemplateToSheet ----
    sheet,      \* the target Sheet: its entity and tables (data), its undo manager
    applied,    \* the last applyTemplateToSheet call, and the sheet before it
    \* ---- Template.save ----
    doc,        \* the Template dockable: path, crc, needsSaveAsPrompt, template content
    saved       \* the last operation on it: an edit or a save call, and the state before

nmVars == <<text, m, existing, nmPc, out, out2, m0>>
cwVars == <<prereq, tooltip, call>>
sdVars == <<entity, res>>
hsVars == <<rules, hashers>>
wbVars == <<bonuses, keys, wbMap, wbLast>>
clVars == <<heap, cloned>>
eqVars == <<eq>>
atVars == <<sheet, applied>>
svVars == <<doc, saved>>
vars == <<nmVars, cwVars, sdVars, hsVars, wbVars, clVars, eqVars, atVars, svVars>>

(***************************************************************************)
(* Bounds of the model.                                                    *)
(***************************************************************************)
\* a text has at most MaxMarkers '@' characters
MaxMarkers == 4
\* an entity has NumSkills skills
NumSkills == 2

(***************************************************************************)
(* Go's strings package, as used by nameables.go.                          *)
(***************************************************************************)
At == "@"

\* strings.Count(str, ch) for a one-character ch
RECURSIVE Count(_, _)
Count(str, ch) ==
    IF str = <<>> THEN 0
    ELSE (IF Head(str) = ch THEN 1 ELSE 0) + Count(Tail(str), ch)

\* strings.Split(str, ch) for a one-character ch: Count(str, ch) + 1 parts
RECURSIVE SplitFrom(_, _, _)
SplitFrom(str, ch, cur) ==
    IF str = <<>> THEN <<cur>>
    ELSE IF Head(str) = ch THEN <<cur>> \o SplitFrom(Tail(str), ch, <<>>)
    ELSE SplitFrom(Tail(str), ch, Append(cur, Head(str)))

Split(str, ch) == SplitFrom(str, ch, <<>>)

\* strings.ReplaceAll(str, old, new) for a non-empty old: the non-overlapping
\* occurrences of old, found scanning left to right, are replaced by new
RECURSIVE ReplaceFrom(_, _, _, _)
ReplaceFrom(str, old, new, i) ==
    IF i + Len(old) - 1 > Len(str) THEN SubSeq(str, i, Len(str))
    ELSE IF SubSeq(str, i, i + Len(old) - 1) = old
         THEN new \o ReplaceFrom(str, old, new, i + Len(old))
         ELSE <<str[i]>> \o ReplaceFrom(str, old, new, i + 1)

ReplaceAll(str, old, new) == ReplaceFrom(str, old, new, 1)

(***************************************************************************)
(* nameables.go                                                            *)
(***************************************************************************)
\* The orders in which "for k, v := range m" may visit the keys of m: Go
\* leaves the iteration order of a map unspecified, so every permutation
\* of the keys is a possible run.
Orders(mp) ==
    {o \in [1..Cardinality(DOMAIN mp) -> DOMAIN mp] :
        \A i, j \in DOMAIN o : i # j => o[i] # o[j]}

\* the loop of ApplyNameables, visiting the keys in the order ord
RECURSIVE ApplyLoop(_, _, _)
ApplyLoop(str, mp, ord) ==
    IF ord = <<>> THEN str
    ELSE ApplyLoop(ReplaceAll(str, <<At>> \o Head(ord) \o <<At>>, mp[Head(ord)]),
                   mp, Tail(ord))

\* ApplyNameables(str, m), its map visited in the order ord
ApplyNameables(str, mp, ord) ==
    IF Count(str, At) > 1 THEN ApplyLoop(str, mp, ord) ELSE str

RECURSIVE ExtractLoop(_, _, _, _, _)

\* a loop that takes every odd-indexed segment, the one after the last marker too
RECURSIVE ExtractLoopEveryOdd(_, _, _, _, _)
ExtractLoopEveryOdd(parts, i, count, mp, ex) ==
    IF i >= Len(parts) THEN mp
    ELSE LET one == parts[i + 1]
             val == IF one \in DOMAIN ex THEN ex[one] ELSE one
             nxt == IF i % 2 = 1
                    THEN [k \in DOMAIN mp \cup {one} |->
                             IF k = one THEN val ELSE mp[k]]
                    ELSE mp
         IN  ExtractLoopEveryOdd(parts, i + 1, count, nxt, ex)

\* the loop of ExtractNameables over parts[i..], i counted from 0 as in Go
ExtractLoop(parts, i, count, mp, ex) ==
    IF i >= Len(parts) THEN mp
    ELSE LET one == parts[i + 1]
             val == IF one \in DOMAIN ex THEN ex[one] ELSE one
             nxt == IF i % 2 = 1 /\ i < count
                    THEN [k \in DOMAIN mp \cup {one} |->
                             IF k = one THEN val ELSE mp[k]]
                    ELSE mp
         IN  ExtractLoop(parts, i + 1, count, nxt, ex)

\* an ExtractNameables that takes what follows a single marker as a key
ExtractNameablesSingleMarker(str, mp, ex) ==
    LET count == Count(str, At)
    IN  IF count > 0 THEN ExtractLoop(Split(str, At), 0, count + 1, mp, ex) ELSE mp

\* ExtractNameables(str, m, existing): the map m after the call
ExtractNameables(str, mp, ex) ==
    LET count == Count(str, At)
    IN  IF count > 1 THEN ExtractLoop(Split(str, At), 0, count, mp, ex) ELSE mp

(***************************************************************************)
(* The nameables component: a text and a replacement map are given; the    *)
(* caller may extract the text's keys into the map, and applies the map    *)
(* once or twice.                                                          *)
(***************************************************************************)
\* the '@'-free stretches texts are built from
Segs == {<<>>, <<"a">>, <<"b">>}

RECURSIVE Join(_)
Join(parts) ==
    IF Len(parts) = 1 THEN parts[1]
    ELSE parts[1] \o <<At>> \o Join(Tail(parts))

\* every text with at most MaxMarkers markers whose stretches are in Segs
Texts == UNION {{Join(p) : p \in [1..n -> Segs]} : n \in 1..(MaxMarkers + 1)}

Keys == {<<"a">>, <<"b">>}
Vals == {<<"a">>, <<"b">>, <<"x">>, <<At>>}
Maps == UNION {[ks -> Vals] : ks \in SUBSET Keys}
Existings == {<<>>} \cup [{<<"a">>} -> {<<"x">>}]

NmInit ==
    /\ text \in Texts
    /\ m \in Maps
    /\ existing = <<>>
    /\ nmPc = "start"
    /\ out = <<>>
    /\ out2 = <<>>
    /\ m0 = m

NmIdle ==
    /\ text = <<>>
    /\ m = <<>>
    /\ existing = <<>>
    /\ nmPc = "idle"
    /\ out = <<>>
    /\ out2 = <<>>
    /\ m0 = <<>>

\* a caller runs ExtractNameables(text, m, ex)
Extract ==
    /\ nmPc = "start"
    /\ \E ex \in Existings :
          /\ existing' = ex
          /\ m' = ExtractNameables(text, m, ex)
    /\ m0' = m
    /\ nmPc' = "extracted"
    /\ UNCHANGED <<text, out, out2>>

\* a caller runs out = ApplyNameables(text, m); Go picks the map order
Apply ==
    /\ nmPc \in {"start", "extracted"}
    /\ \E ord \in Orders(m) : out' = ApplyNameables(text, m, ord)
    /\ nmPc' = "applied"
    /\ UNCHANGED <<text, m, existing, out2, m0>>

\* a caller runs out2 = ApplyNameables(out, m) on the substituted text
Reapply ==
    /\ nmPc = "applied"
    /\ \E ord \in Orders(m) : out2' = ApplyNameables(out, m, ord)
    /\ nmPc' = "reapplied"
    /\ UNCHANGED <<text, m, existing, out, m0>>

NmNext ==
    \/ Extract
    \/ Apply
    \/ Reapply

(***************************************************************************)
(* contained_weight_prereq.go: ContainedWeightPrereq                       *)
(***************************************************************************)
\* the numeric comparison operators of a WeightCriteria
Compares == {"AnyNumber", "EqualsNumber", "AtLeastNumber", "AtMostNumber"}

\* the qualifier NewContainedWeightPrereq sets: WeightFromInteger(5, units)
DefaultQualifier == 5

\* NewContainedWeightPrereq(entity)
NewContainedWeightPrereq ==
    [Has |-> TRUE, Compare |-> "AtMostNumber", Qualifier |-> DefaultQualifier]

\* WeightCriteria.Matches(weight)
Matches(c, weight) ==
    CASE c.Compare = "AnyNumber" -> TRUE
      [] c.Compare = "EqualsNumber" -> weight = c.Qualifier
      [] c.Compare = "AtLeastNumber" -> weight >= c.Qualifier
      [] c.Compare = "AtMostNumber" -> weight <= c.Qualifier

\* WeightCriteria.String(): the description of the condition
CriteriaString(c) ==
    CASE c.Compare = "AnyNumber" -> "is anything"
      [] c.Compare = "EqualsNumber" -> "is exactly " \o ToString(c.Qualifier)
      [] c.Compare = "AtLeastNumber" -> "is at least " \o ToString(c.Qualifier)
      [] c.Compare = "AtMostNumber" -> "is at most " \o ToString(c.Qualifier)

\* HasText(has)
HasText(has) == IF has THEN "has" ELSE "does not have"

\* exclude.(*Equipment): whether the excluded value is an equipment item
IsEquipment(exclude) == exclude.kind = "equipment"

\* lines 69-76 of Satisfied: the outcome of the check before Has is applied
VariantSatisfied(c, exclude) ==
    IF IsEquipment(exclude)
    THEN IF ~exclude.container
         THEN TRUE
         ELSE Matches(c, exclude.extended - exclude.adjusted)
    ELSE FALSE

\* a Satisfied that takes the phrase from the returned value, not from Has
SatisfiedPhraseByResult(c, exclude, hasBuf, buf, prefix) ==
    LET variant == VariantSatisfied(c, exclude)
        satisfied == IF ~c.Has THEN ~variant ELSE variant
    IN  [satisfied |-> satisfied,
         buf |-> IF ~satisfied /\ hasBuf
                 THEN buf \o <<prefix, HasText(satisfied),
                               " a contained weight which ", CriteriaString(c)>>
                 ELSE buf]

\* a Satisfied whose check leaves a non-container unsatisfied
SatisfiedContainerOnly(c, exclude, hasBuf, buf, prefix) ==
    LET variant == IsEquipment(exclude) /\ exclude.container
                   /\ Matches(c, exclude.extended - exclude.adjusted)
        satisfied == IF ~c.Has THEN ~variant ELSE variant
    IN  [satisfied |-> satisfied,
         buf |-> IF ~satisfied /\ hasBuf
                 THEN buf \o <<prefix, HasText(c.Has),
                               " a contained weight which ", CriteriaString(c)>>
                 ELSE buf]

\* ContainedWeightPrereq.Satisfied(entity, exclude, tooltip, prefix, _):
\* the value returned and the tooltip buffer after the call. hasBuf is
\* "tooltip != nil"; buf is the content of the buffer when there is one.
Satisfied(c, exclude, hasBuf, buf, prefix) ==
    LET variant == VariantSatisfied(c, exclude)
        satisfied == IF ~c.Has THEN ~variant ELSE variant
    IN  [satisfied |-> satisfied,
         buf |-> IF ~satisfied /\ hasBuf
                 THEN buf \o <<prefix, HasText(c.Has),
                               " a contained weight which ", CriteriaString(c)>>
                 ELSE buf]

(***************************************************************************)
(* The prerequisite component: a ContainedWeightPrereq, made by            *)
(* NewContainedWeightPrereq or read from a document, is evaluated against  *)
(* excluded items with the caller's tooltip buffer or with none.           *)
(***************************************************************************)
\* Satisfied is called at most MaxCalls times on one buffer
MaxCalls == 2

Qualifiers == {DefaultQualifier, DefaultQualifier + 1}

Prereqs == [Has : BOOLEAN, Compare : Compares, Qualifier : Qualifiers]

\* the values of "exclude any": nil, a non-equipment item, an equipment item
\* with its extended and adjusted weights (equal for a non-container)
Excludes ==
    {[kind |-> k, container |-> FALSE, extended |-> 0, adjusted |-> 0] :
        k \in {"nil", "skill"}}
    \cup [kind : {"equipment"}, container : {FALSE}, extended : {2}, adjusted : {2}]
    \cup [kind : {"equipment"}, container : {TRUE},
          extended : {2, 2 + DefaultQualifier, 3 + DefaultQualifier}, adjusted : {2}]

Prefixes == {"", "- "}

NoCall ==
    [n |-> 0, exclude |-> CHOOSE e \in Excludes : e.kind = "nil", hasBuf |-> FALSE,
     prefix |-> "", before |-> <<>>, satisfied |-> FALSE]

CwInit ==
    /\ prereq \in Prereqs
    /\ tooltip = <<>>
    /\ call = NoCall

CwIdle ==
    /\ prereq = NewContainedWeightPrereq
    /\ tooltip = <<>>
    /\ call = NoCall

\* a caller evaluates the prerequisite
CallSatisfied ==
    /\ call.n < MaxCalls
    /\ \E exclude \in Excludes, hasBuf \in BOOLEAN, prefix \in Prefixes :
          LET r == Satisfied(prereq, exclude, hasBuf, tooltip, prefix)
          IN  /\ tooltip' = r.buf
              /\ call' = [n |-> call.n + 1, exclude |-> exclude, hasBuf |-> hasBuf,
                          prefix |-> prefix, before |-> tooltip,
                          satisfied |-> r.satisfied]
    /\ UNCHANGED prereq

CwNext ==
    \/ CallSatisfied

(***************************************************************************)
(* fxp.Int: a 64-bit fixed-point number with four decimal places, modelled *)
(* by its raw data.                                                        *)
(***************************************************************************)
Multiplier == 10000

\* fxp.From(n)
From(n) == n * Multiplier

\* fxp.Min, the "undefined" sentinel (math.MinInt64 in the code). The code
\* only compares it and guards arithmetic on it, except in Div below; here
\* it is a number below every level of the model.
fxpMin == -2147483647

\* Go's integer division a / b for b > 0: the quotient truncated toward zero
GoQuot(a, b) == IF a >= 0 THEN a \div b ELSE -((-a) \div b)

\* f.Div(v) is int64(f) * Multiplier / int64(v). For f = fxp.Min the
\* product wraps around in 64 bits to 0 (2^63 * 10000 is a multiple of 2^64).
Div(f, v) == IF f = fxpMin THEN 0 ELSE GoQuot(f * Multiplier, v)

\* f.Trunc() is int64(f) / Multiplier * Multiplier
Trunc(f) == GoQuot(f, Multiplier) * Multiplier

\* f.Min(v)
FxpMinOf(f, v) == IF f < v THEN f ELSE v

(***************************************************************************)
(* contained_weight_prereq.go: SkillDefault                                *)
(***************************************************************************)
SkillID == "skill"
ParryID == "parry"
BlockID == "block"
DodgeID == "dodge"

\* The characters of the DefaultType strings of the model. A DefaultType is
\* kept as a string, which the resolver compares as a whole; Chars gives the
\* string's characters to the functions that look into it.
Chars(t) ==
    CASE t = "skill" -> <<"s", "k", "i", "l", "l">>
      [] t = "parry" -> <<"p", "a", "r", "r", "y">>
      [] t = "block" -> <<"b", "l", "o", "c", "k">>
      [] t = "dodge" -> <<"d", "o", "d", "g", "e">>
      [] t = "dx" -> <<"d", "x">>
      [] t = "xx" -> <<"x", "x">>
      [] t = "Skill" -> <<"S", "k", "i", "l", "l">>
      [] t = " parry" -> <<" ", "p", "a", "r", "r", "y">>
      [] t = "BLOCK " -> <<"B", "L", "O", "C", "K", " ">>
      [] t = "DX" -> <<"D", "X">>

\* strings.ToLower, on the letters A-Z
ToLower(str) ==
    LET upper == <<"A", "B", "C", "D", "E", "F", "G", "H", "I", "J", "K", "L", "M",
                   "N", "O", "P", "Q", "R", "S", "T", "U", "V", "W", "X", "Y", "Z">>
        lower == <<"a", "b", "c", "d", "e", "f", "g", "h", "i", "j", "k", "l", "m",
                   "n", "o", "p", "q", "r", "s", "t", "u", "v", "w", "x", "y", "z">>
    IN  [i \in 1..Len(str) |->
            IF \E j \in 1..26 : upper[j] = str[i]
            THEN lower[CHOOSE j \in 1..26 : upper[j] = str[i]]
            ELSE str[i]]

\* strings.TrimSpace, on the space character
RECURSIVE TrimSpace(_)
TrimSpace(str) ==
    IF str = <<>> THEN str
    ELSE IF Head(str) = " " THEN TrimSpace(Tail(str))
    ELSE IF str[Len(str)] = " " THEN TrimSpace(SubSeq(str, 1, Len(str) - 1))
    ELSE str

\* SkillDefault.SkillBased(): skillBasedDefaultTypes holds SkillID, ParryID and BlockID
SkillBased(s) ==
    ToLower(TrimSpace(Chars(s.DefaultType))) \in {Chars(SkillID), Chars(ParryID), Chars(BlockID)}

\* The replacement maps of this component hold at most one key, so the
\* order in which ApplyNameables visits them is unique.
OnlyOrder(replacements) == CHOOSE ord \in Orders(replacements) : TRUE

\* SkillDefault.NameWithReplacements(replacements)
NameWithReplacements(s, replacements) ==
    ApplyNameables(s.Name, replacements, OnlyOrder(replacements))

\* SkillDefault.SpecializationWithReplacements(replacements)
SpecializationWithReplacements(s, replacements) ==
    ApplyNameables(s.Specialization, replacements, OnlyOrder(replacements))

\* Entity.SkillNamed(name, specialization, requirePoints, excludes): the
\* skills of the entity, in the order of its skill list, that match
SkillNamed(e, name, specialization, requirePoints, excludes) ==
    SelectSeq([i \in 1..Len(e.Skills) |-> i],
              LAMBDA i :
                  /\ i \notin excludes
                  /\ (~requirePoints \/ e.Skills[i].Points > 0)
                  /\ e.Skills[i].Name = name
                  /\ (specialization = <<>> \/ e.Skills[i].Specialization = specialization))

\* Entity.Dodge(enc)
Dodge(e, enc) == e.BasicDodge - enc

\* Entity.EncumbranceLevel(false)
EncumbranceLevel(e) == e.Encumbrance

\* Entity.ResolveAttributeCurrent(id): fxp.Min for an id that names no attribute
ResolveAttributeCurrent(e, id) ==
    IF id \in DOMAIN e.Attributes THEN e.Attributes[id] ELSE fxpMin

\* a finalLevel that adds the modifier to the sentinel too
finalLevelAlways(s, level) == level + s.Modifier

\* SkillDefault.finalLevel(level)
finalLevel(s, level) == IF level # fxpMin THEN level + s.Modifier ELSE level

RECURSIVE bestFastLoop(_, _, _, _)

\* a loop that keeps the last candidate's level instead of the highest
RECURSIVE bestFastLoopLast(_, _, _, _)
bestFastLoopLast(e, cands, i, acc) ==
    IF i > Len(cands) THEN acc
    ELSE bestFastLoopLast(e, cands, i + 1, e.Skills[cands[i]].Level)

\* the loop of bestFast over the candidates cands[i..]
bestFastLoop(e, cands, i, acc) ==
    IF i > Len(cands) THEN acc
    ELSE bestFastLoop(e, cands, i + 1,
                      IF acc < e.Skills[cands[i]].Level
                      THEN e.Skills[cands[i]].Level ELSE acc)

\* a bestFast that looks the candidates up without the exclusion set
bestFastIgnoringExcludes(s, e, replacements, requirePoints, excludes) ==
    bestFastLoop(e, SkillNamed(e, NameWithReplacements(s, replacements),
                               SpecializationWithReplacements(s, replacements),
                               requirePoints, {}),
                 1, fxpMin)

\* SkillDefault.bestFast(entity, replacements, requirePoints, excludes)
bestFast(s, e, replacements, requirePoints, excludes) ==
    bestFastLoop(e, SkillNamed(e, NameWithReplacements(s, replacements),
                               SpecializationWithReplacements(s, replacements),
                               requirePoints, excludes),
                 1, fxpMin)

\* a SkillLevelFast that applies the rule of 20 to Dodge but not to attributes
SkillLevelFastNoAttributeCap(s, e, replacements, requirePoints, excludes, ruleOf20) ==
    CASE s.DefaultType = DodgeID ->
           LET level == Dodge(e, EncumbranceLevel(e))
           IN  finalLevel(s, From(IF ruleOf20 /\ level > 20 THEN 20 ELSE level))
      [] s.DefaultType \in {ParryID, BlockID, SkillID} ->
           finalLevel(s, bestFast(s, e, replacements, requirePoints, excludes))
      [] OTHER ->
           LET cur == ResolveAttributeCurrent(e, s.DefaultType)
               level == IF e.UseHalfStatDefaults
                        THEN Trunc(Div(cur, From(2))) + From(5)
                        ELSE cur
           IN  finalLevel(s, level)

\* SkillDefault.SkillLevelFast(entity, replacements, requirePoints, excludes, ruleOf20)
SkillLevelFast(s, e, replacements, requirePoints, excludes, ruleOf20) ==
    CASE s.DefaultType = DodgeID ->
           LET level == Dodge(e, EncumbranceLevel(e))
           IN  finalLevel(s, From(IF ruleOf20 /\ level > 20 THEN 20 ELSE level))
      [] s.DefaultType = ParryID ->
           LET b == bestFast(s, e, replacements, requirePoints, excludes)
           IN  finalLevel(s, IF b # fxpMin
                             THEN Trunc(Div(b, From(2))) + From(3) + e.ParryBonus
                             ELSE b)
      [] s.DefaultType = BlockID ->
           LET b == bestFast(s, e, replacements, requirePoints, excludes)
           IN  finalLevel(s, IF b # fxpMin
                             THEN Trunc(Div(b, From(2))) + From(3) + e.BlockBonus
                             ELSE b)
      [] s.DefaultType = SkillID ->
           finalLevel(s, bestFast(s, e, replacements, requirePoints, excludes))
      [] OTHER ->
           LET cur == ResolveAttributeCurrent(e, s.DefaultType)
               capped == IF ruleOf20 THEN FxpMinOf(cur, From(20)) ELSE cur
               level == IF e.UseHalfStatDefaults
                        THEN Trunc(Div(capped, From(2))) + From(5)
                        ELSE capped
           IN  finalLevel(s, level)

(***************************************************************************)
(* The full path. A resolution is a record: lvl, the level; calls, the      *)
(* CalculateLevel calls made, each <<skill, excludes, depth>>; over, set    *)
(* when the calls nest deeper than the entity has skills, where the model    *)
(* cuts the recursion off.                                                  *)
(***************************************************************************)
Resolved(level) == [lvl |-> level, calls |-> {}, over |-> FALSE]

RECURSIVE CalculateLevel(_, _, _, _)
RECURSIVE SkillLevel(_, _, _, _, _, _, _)
RECURSIVE best(_, _, _, _, _, _)
RECURSIVE bestLoop(_, _, _, _, _, _)

\* Skill.CalculateLevel(excludes), d calls deep: the skill's level without
\* updating it. The skill adds itself to the exclusion set and then takes
\* the better of the level its points buy and the level of its default.
CalculateLevel(e, sk, excludes, d) ==
    IF d >= Len(e.Skills)
    THEN [lvl |-> fxpMin, calls |-> {<<sk, excludes, d>>}, over |-> TRUE]
    ELSE LET inProgress == excludes \cup {sk}
             own == IF e.Skills[sk].Points > 0 THEN e.Skills[sk].Base ELSE fxpMin
             def == IF e.Skills[sk].HasDefault
                    THEN SkillLevel(e.Skills[sk].Default, e, <<>>, TRUE,
                                    inProgress, TRUE, d + 1)
                    ELSE Resolved(fxpMin)
         IN  [lvl |-> IF own < def.lvl THEN def.lvl ELSE own,
              calls |-> {<<sk, excludes, d>>} \cup def.calls,
              over |-> def.over]

\* the loop of best over the candidates cands[i..]
bestLoop(e, cands, i, acc, excludes, d) ==
    IF i > Len(cands) THEN acc
    ELSE IF acc.lvl < e.Skills[cands[i]].Level
         THEN LET r == CalculateLevel(e, cands[i], excludes, d)
              IN  bestLoop(e, cands, i + 1,
                           [lvl |-> IF acc.lvl < r.lvl THEN r.lvl ELSE acc.lvl,
                            calls |-> acc.calls \cup r.calls,
                            over |-> acc.over \/ r.over],
                           excludes, d)
         ELSE bestLoop(e, cands, i + 1, acc, excludes, d)

\* a best that looks the candidates up without the exclusion set
bestIgnoringExcludes(s, e, replacements, requirePoints, excludes, d) ==
    bestLoop(e, SkillNamed(e, NameWithReplacements(s, replacements),
                           SpecializationWithReplacements(s, replacements),
                           requirePoints, {}),
             1, Resolved(fxpMin), excludes, d)

\* SkillDefault.best(entity, replacements, requirePoints, excludes)
best(s, e, replacements, requirePoints, excludes, d) ==
    bestLoop(e, SkillNamed(e, NameWithReplacements(s, replacements),
                           SpecializationWithReplacements(s, replacements),
                           requirePoints, excludes),
             1, Resolved(fxpMin), excludes, d)

\* SkillDefault.SkillLevel(entity, replacements, requirePoints, excludes, ruleOf20)
SkillLevel(s, e, replacements, requirePoints, excludes, ruleOf20, d) ==
    CASE s.DefaultType = ParryID ->
           LET b == best(s, e, replacements, requirePoints, excludes, d)
           IN  [b EXCEPT !.lvl = finalLevel(s, IF b.lvl # fxpMin
                                               THEN Trunc(Div(b.lvl, From(2))) + From(3)
                                                    + e.ParryBonus
                                               ELSE b.lvl)]
      [] s.DefaultType = BlockID ->
           LET b == best(s, e, replacements, requirePoints, excludes, d)
           IN  [b EXCEPT !.lvl = finalLevel(s, IF b.lvl # fxpMin
                                               THEN Trunc(Div(b.lvl, From(2))) + From(3)
                                                    + e.BlockBonus
                                               ELSE b.lvl)]
      [] s.DefaultType = SkillID ->
           LET b == best(s, e, replacements, requirePoints, excludes, d)
           IN  [b EXCEPT !.lvl = finalLevel(s, b.lvl)]
      [] OTHER ->
           Resolved(SkillLevelFast(s, e, replacements, requirePoints, excludes, ruleOf20))

(***************************************************************************)
(* The resolver component: an entity with NumSkills skills, and callers    *)
(* that resolve a SkillDefault against it on the full or the fast path.    *)
(***************************************************************************)
NameA == <<"a">>
NameB == <<"b">>
KeyK == <<At, "k", At>>

NoDefault == [DefaultType |-> SkillID, Name |-> <<>>, Specialization |-> <<>>, Modifier |-> 0]

DefaultFrom(name) ==
    [DefaultType |-> SkillID, Name |-> name, Specialization |-> <<>>, Modifier |-> 0]

\* the scalar part of an entity
Scalars(parry, block, dodge, enc, dx, half) ==
    [ParryBonus |-> parry, BlockBonus |-> block, BasicDodge |-> dodge,
     Encumbrance |-> enc, Attributes |-> [id \in {"dx"} |-> dx],
     UseHalfStatDefaults |-> half]

WithSkills(sc, skills) ==
    [Skills |-> skills, ParryBonus |-> sc.ParryBonus, BlockBonus |-> sc.BlockBonus,
     BasicDodge |-> sc.BasicDodge, Encumbrance |-> sc.Encumbrance,
     Attributes |-> sc.Attributes, UseHalfStatDefaults |-> sc.UseHalfStatDefaults]

PlainScalars == Scalars(0, From(1), 8, 0, From(10), FALSE)

\* Skills that default to one another: each is named a or b, has points (and
\* then level 12 from them) or not, and has no default or defaults to the
\* skills named a or to those named b. The cached levels are not yet known.
ChainSkill(name, hasPoints, hasDefault, target) ==
    [Name |-> name, Specialization |-> <<>>,
     Points |-> IF hasPoints THEN 1 ELSE 0, Base |-> From(12),
     HasDefault |-> hasDefault,
     Default |-> IF hasDefault THEN DefaultFrom(target) ELSE NoDefault,
     Level |-> fxpMin]

ChainSkills ==
    {ChainSkill(n, p, FALSE, NameA) : n \in {NameA, NameB}, p \in BOOLEAN}
    \cup {ChainSkill(n, p, TRUE, t) : n \in {NameA, NameB}, p \in BOOLEAN,
                                     t \in {NameA, NameB}}

\* Skill.UpdateLevel on every skill: the cached level becomes the computed one
Updated(e) ==
    [e EXCEPT !.Skills = [i \in 1..Len(e.Skills) |->
        [e.Skills[i] EXCEPT !.Level = CalculateLevel(e, i, {}, 0).lvl]]]

\* every cached level is out of date, and high
Outdated(e) ==
    [e EXCEPT !.Skills = [i \in 1..Len(e.Skills) |->
        [e.Skills[i] EXCEPT !.Level = From(20)]]]

\* Skills of one name that differ in specialization, with and without
\* points, whose cached level may or may not be the computed one.
LevelSkill(i, own, level) ==
    [Name |-> NameA, Specialization |-> IF i = 1 THEN <<"s">> ELSE <<"t">>,
     Points |-> IF own = fxpMin THEN 0 ELSE 1, Base |-> own,
     HasDefault |-> FALSE, Default |-> NoDefault, Level |-> level]

OwnLevels == {fxpMin, From(-3), From(12)}
CachedLevels == {fxpMin, From(-3), From(12), From(13)}

LevelTables ==
    {[i \in 1..NumSkills |-> LevelSkill(i, f[i][1], f[i][2])] :
        f \in [1..NumSkills -> OwnLevels \X CachedLevels]}

NoRes ==
    [path |-> "none", s |-> NoDefault, replacements |-> <<>>, requirePoints |-> FALSE,
     excludes |-> {}, ruleOf20 |-> FALSE, lvl |-> 0, calls |-> {}, over |-> FALSE]

SdIdle ==
    /\ entity = WithSkills(PlainScalars, <<>>)
    /\ res = NoRes

InitChain ==
    /\ \E t \in [1..NumSkills -> ChainSkills] :
          \/ entity = Updated(WithSkills(PlainScalars, t))
          \/ entity = Outdated(WithSkills(PlainScalars, t))
    /\ res = NoRes

InitLevels ==
    /\ \E t \in LevelTables, sc \in {PlainScalars, Scalars(From(2), 0, 8, 0, From(10), FALSE)} :
          entity = WithSkills(sc, t)
    /\ res = NoRes

InitAttr ==
    /\ \E dodge \in {8, 22}, enc \in {0, 1}, dx \in {From(-3), From(9), From(21)},
          half \in BOOLEAN :
          entity = WithSkills(Scalars(0, From(1), dodge, enc, dx, half),
                              [i \in 1..NumSkills |-> LevelSkill(i, From(12), From(12))])
    /\ res = NoRes

\* the name, specialization and replacements of the defaults resolved
Targets ==
    {<<NameA, <<>>, <<>>>>,
     <<KeyK, <<>>, [k \in {<<"k">>} |-> NameA]>>,
     <<NameA, KeyK, [k \in {<<"k">>} |-> <<"s">>]>>,
     <<KeyK, <<>>, <<>>>>}

Query(type, t, modifier, requirePoints, excludes, ruleOf20) ==
    [s |-> [DefaultType |-> type, Name |-> t[1], Specialization |-> t[2],
            Modifier |-> modifier],
     replacements |-> t[3], requirePoints |-> requirePoints,
     excludes |-> excludes, ruleOf20 |-> ruleOf20]

ChainQueries ==
    {Query(SkillID, <<n, <<>>, <<>>>>, 0, rp, ex, FALSE) :
        n \in {NameA, NameB}, rp \in BOOLEAN, ex \in SUBSET (1..NumSkills)}

LevelQueries ==
    {Query(type, t, md, rp, ex, FALSE) :
        type \in {SkillID, ParryID, BlockID}, t \in Targets, md \in {0, From(1)},
        rp \in BOOLEAN, ex \in {{}, {1}}}
    \cup {Query(type, <<NameA, <<>>, <<>>>>, md, FALSE, {}, r20) :
            type \in {DodgeID, "dx"}, md \in {0, From(1)}, r20 \in BOOLEAN}

AttrQueries ==
    {Query(type, <<NameA, <<>>, <<>>>>, md, FALSE, {}, r20) :
        type \in {DodgeID, "dx", "xx", "DX", SkillID, ParryID, BlockID, "Skill", " parry", "BLOCK "},
        md \in {0, From(1)}, r20 \in BOOLEAN}

\* a caller runs s.SkillLevel(entity, replacements, requirePoints, excludes, ruleOf20);
\* the entity is left as it is, so one resolution per behaviour shows them all
CallSkillLevel(q) ==
    LET r == SkillLevel(q.s, entity, q.replacements, q.requirePoints, q.excludes,
                        q.ruleOf20, 0)
    IN  /\ res.path = "none"
        /\ res' = [path |-> "full", s |-> q.s, replacements |-> q.replacements,
                   requirePoints |-> q.requirePoints, excludes |-> q.excludes,
                   ruleOf20 |-> q.ruleOf20, lvl |-> r.lvl, calls |-> r.calls,
                   over |-> r.over]
        /\ UNCHANGED entity

\* a caller runs s.SkillLevelFast(entity, replacements, requirePoints, excludes, ruleOf20)
CallSkillLevelFast(q) ==
    /\ res.path = "none"
    /\ res' = [path |-> "fast", s |-> q.s, replacements |-> q.replacements,
               requirePoints |-> q.requirePoints, excludes |-> q.excludes,
               ruleOf20 |-> q.ruleOf20,
               lvl |-> SkillLevelFast(q.s, entity, q.replacements, q.requirePoints,
                                      q.excludes, q.ruleOf20),
               calls |-> {}, over |-> FALSE]
    /\ UNCHANGED entity

ResolveChain == \E q \in ChainQueries : CallSkillLevel(q)
ResolveLevel == \E q \in LevelQueries : CallSkillLevel(q)
ResolveLevelFast == \E q \in LevelQueries : CallSkillLevelFast(q)
ResolveAttr == \E q \in AttrQueries : CallSkillLevel(q)
ResolveAttrFast == \E q \in AttrQueries : CallSkillLevelFast(q)

(***************************************************************************)
(* The content hasher. A hash.Hash is modelled by the bytes written to it, *)
(* a byte by its value 0..255.                                             *)
(***************************************************************************)
\* the code of a character of the model's alphabet
CharCode(c) ==
    CASE c = "a" -> 97 [] c = "b" -> 98 [] c = "d" -> 100 [] c = "i" -> 105
      [] c = "k" -> 107 [] c = "l" -> 108 [] c = "s" -> 115 [] c = "x" -> 120
      [] c = At -> 64

\* []byte(str)
Bytes(str) == [i \in 1..Len(str) |-> CharCode(str[i])]

\* binary.Write(h, binary.LittleEndian, v) for a 64-bit integer v: the eight
\* bytes of its two's complement, lowest first (v fits in 32 bits here)
LittleEndian(v) ==
    [i \in 1..8 |->
        IF v >= 0
        THEN (IF i <= 4 THEN (v \div (256 ^ (i - 1))) % 256 ELSE 0)
        ELSE (IF i <= 4 THEN 255 - (((-(v + 1)) \div (256 ^ (i - 1))) % 256) ELSE 255)]

\* binary.Write(h, binary.LittleEndian, b) for a bool b
BoolByte(b) == <<IF b THEN 1 ELSE 0>>

\* the outcome of a Hash call: the hasher's bytes after it, and whether the
\* call panicked (a nil pointer dereference ends the process)
Hashed(bytes, panicked) == [bytes |-> bytes, panicked |-> panicked]

\* a Hash that also writes the computed level
HashWithLevel(s, isNil, h) ==
    IF isNil THEN Hashed(h, TRUE)
    ELSE Hashed(h \o Bytes(s.DefaultType) \o Bytes(s.Name) \o Bytes(s.Specialization)
                  \o LittleEndian(s.Modifier) \o LittleEndian(s.Level), FALSE)

\* SkillDefault.Hash(h): the receiver is dereferenced without a nil check
SkillDefaultHash(s, isNil, h) ==
    IF isNil THEN Hashed(h, TRUE)
    ELSE Hashed(h \o Bytes(s.DefaultType) \o Bytes(s.Name) \o Bytes(s.Specialization)
                  \o LittleEndian(s.Modifier), FALSE)

\* prereq.ContainedWeight, the Type NewContainedWeightPrereq sets, as its byte
ContainedWeight == 4

\* the byte written for a comparison operator of a WeightCriteria
CompareByte(compare) ==
    CASE compare = "AnyNumber" -> 0 [] compare = "EqualsNumber" -> 1
      [] compare = "AtLeastNumber" -> 2 [] compare = "AtMostNumber" -> 3

\* WeightCriteria.Hash(h): the comparison and the qualifier
WeightCriteriaHash(c, h) == h \o <<CompareByte(c.Compare)>> \o LittleEndian(c.Qualifier)

\* a ContainedWeightPrereq.Hash that writes a marker byte for a nil receiver
PrereqHashNilMarker(c, isNil, h) ==
    IF isNil THEN Hashed(h \o <<0>>, FALSE)
    ELSE Hashed(WeightCriteriaHash(c, h \o <<ContainedWeight>> \o BoolByte(c.Has)), FALSE)

\* ContainedWeightPrereq.Hash(h)
PrereqHash(c, isNil, h) ==
    IF isNil THEN Hashed(h, FALSE)
    ELSE Hashed(WeightCriteriaHash(c, h \o <<ContainedWeight>> \o BoolByte(c.Has)), FALSE)

(***************************************************************************)
(* The hasher component: two rule objects of one kind, each hashed into a  *)
(* hasher of its own that may already hold the bytes of what came before.  *)
(***************************************************************************)
HashedTypes == {<<"d", "x">>, <<"s", "k", "i", "l", "l">>}
HashedNames == {<<>>, <<"a">>, <<"a", "b">>}
HashedSpecializations == {<<>>, <<"b">>}

SkillDefaults ==
    [DefaultType : HashedTypes, Name : HashedNames, Specialization : HashedSpecializations,
     Modifier : {0, From(-1)}, Level : {0, From(12)}, AdjLevel : {0, From(11)},
     Points : {0, From(4)}]

\* the zero values that stand in the record of a nil pointer
ZeroSkillDefault ==
    [DefaultType |-> <<>>, Name |-> <<>>, Specialization |-> <<>>, Modifier |-> 0,
     Level |-> 0, AdjLevel |-> 0, Points |-> 0]

DefaultRule(s, isNil) ==
    [kind |-> "SkillDefault", isNil |-> isNil, sd |-> s, cw |-> NewContainedWeightPrereq]

PrereqRule(c, isNil) ==
    [kind |-> "ContainedWeightPrereq", isNil |-> isNil, sd |-> ZeroSkillDefault, cw |-> c]

DefaultRules == {DefaultRule(s, FALSE) : s \in SkillDefaults}
                \cup {DefaultRule(ZeroSkillDefault, TRUE)}

PrereqRules == {PrereqRule(c, FALSE) : c \in Prereqs}
               \cup {PrereqRule(NewContainedWeightPrereq, TRUE)}

\* what a hasher may hold before the rule object is hashed
HashedBefore == {<<>>, <<ContainedWeight>>}

FreshHasher(before) ==
    [before |-> before, bytes |-> before, called |-> FALSE, panicked |-> FALSE]

HsIdle ==
    /\ rules = <<PrereqRule(NewContainedWeightPrereq, TRUE),
                 PrereqRule(NewContainedWeightPrereq, TRUE)>>
    /\ hashers = <<FreshHasher(<<>>), FreshHasher(<<>>)>>

HsInit ==
    /\ \/ rules \in DefaultRules \X DefaultRules
       \/ rules \in PrereqRules \X PrereqRules
    /\ \E before \in HashedBefore :
          hashers = <<FreshHasher(before), FreshHasher(before)>>

\* a caller runs rules[i].Hash(hashers[i])
CallHash(i) ==
    /\ ~hashers[i].called
    /\ LET r == rules[i]
           o == IF r.kind = "SkillDefault"
                THEN SkillDefaultHash(r.sd, r.isNil, hashers[i].bytes)
                ELSE PrereqHash(r.cw, r.isNil, hashers[i].bytes)
       IN  hashers' = [hashers EXCEPT ![i] = [before |-> hashers[i].before,
                                              bytes |-> o.bytes, called |-> TRUE,
                                              panicked |-> o.panicked]]
    /\ UNCHANGED rules

HashFirst == CallHash(1)
HashSecond == CallHash(2)

HsNext ==
    \/ HashFirst
    \/ HashSecond

(***************************************************************************)
(* nameables.go, package feature: WeaponBonus                              *)
(***************************************************************************)
\* ThisWeaponID = "\u0001": the one character U+0001
ThisWeaponID == <<"U+0001">>

\* WeaponNamedIDPrefix = "weapon_named."
WeaponNamedIDPrefix == <<"w", "e", "a", "p", "o", "n", "_", "n", "a", "m", "e", "d", ".">>

\* SkillNameID = "skill.name"
SkillNameID == <<"s", "k", "i", "l", "l", ".", "n", "a", "m", "e">>

\* weapon.SelectionType: the three selection types
SelectionTypes == {"WithRequiredSkill", "ThisWeapon", "WithName"}

\* the outcome of FeatureMapKey: a key is returned, or jot.Fatal ends the process
Keyed(key) == [returned |-> TRUE, fatal |-> FALSE, key |-> key]
FatalExit == [returned |-> FALSE, fatal |-> TRUE, key |-> <<>>]

\* a buildKey that does not look at the tags criterion
buildKeyIgnoringTags(w, prefix) ==
    IF w.NameCriteria.Compare = "Is" /\ w.SpecializationCriteria.Compare = "Any"
    THEN prefix \o <<"/">> \o w.NameCriteria.Qualifier
    ELSE prefix \o <<"*">>

\* a buildKey that does not look at the specialization criterion
buildKeyIgnoringSpecialization(w, prefix) ==
    IF w.NameCriteria.Compare = "Is" /\ w.TagsCriteria.Compare = "Any"
    THEN prefix \o <<"/">> \o w.NameCriteria.Qualifier
    ELSE prefix \o <<"*">>

\* WeaponBonus.buildKey(prefix)
buildKey(w, prefix) ==
    IF w.NameCriteria.Compare = "Is"
       /\ (w.SpecializationCriteria.Compare = "Any" /\ w.TagsCriteria.Compare = "Any")
    THEN prefix \o <<"/">> \o w.NameCriteria.Qualifier
    ELSE prefix \o <<"*">>

\* a FeatureMapKey that returns the empty key for an invalid selection type
FeatureMapKeyEmptyOnInvalid(w) ==
    CASE w.SelectionType = "WithRequiredSkill" -> Keyed(buildKey(w, SkillNameID))
      [] w.SelectionType = "ThisWeapon" -> Keyed(ThisWeaponID)
      [] w.SelectionType = "WithName" -> Keyed(buildKey(w, WeaponNamedIDPrefix))
      [] OTHER -> Keyed(<<>>)

\* WeaponBonus.FeatureMapKey()
FeatureMapKey(w) ==
    CASE w.SelectionType = "WithRequiredSkill" -> Keyed(buildKey(w, SkillNameID))
      [] w.SelectionType = "ThisWeapon" -> Keyed(ThisWeaponID)
      [] w.SelectionType = "WithName" -> Keyed(buildKey(w, WeaponNamedIDPrefix))
      [] OTHER -> FatalExit

\* nameables.Extract(str, m): the map m after the call
NameablesExtract(str, mp) == ExtractNameables(str, mp, <<>>)

\* nameables.Apply(str, m), the map visited in the order ord
NameablesApply(str, mp, ord) == ApplyNameables(str, mp, ord)

\* a FillWithNameableKeys that scans all three qualifiers for every selection type
FillWithNameableKeysAll(w, mp) ==
    NameablesExtract(w.TagsCriteria.Qualifier,
        NameablesExtract(w.SpecializationCriteria.Qualifier,
            NameablesExtract(w.NameCriteria.Qualifier,
                NameablesExtract(w.SpecializationCriteria.Qualifier, mp))))

\* WeaponBonus.FillWithNameableKeys(m): the map m after the call
FillWithNameableKeys(w, mp) ==
    LET m1 == NameablesExtract(w.SpecializationCriteria.Qualifier, mp)
    IN  IF w.SelectionType # "ThisWeapon"
        THEN NameablesExtract(w.TagsCriteria.Qualifier,
                 NameablesExtract(w.SpecializationCriteria.Qualifier,
                     NameablesExtract(w.NameCriteria.Qualifier, m1)))
        ELSE m1

\* WeaponBonus.ApplyNameableKeys(m): the bonus after the call; ords are the
\* orders in which the four Apply calls visit the map
ApplyNameableKeys(w, mp, ords) ==
    LET sp1 == NameablesApply(w.SpecializationCriteria.Qualifier, mp, ords[1])
    IN  IF w.SelectionType # "ThisWeapon"
        THEN [w EXCEPT
                 !.NameCriteria.Qualifier = NameablesApply(@, mp, ords[2]),
                 !.SpecializationCriteria.Qualifier = NameablesApply(sp1, mp, ords[3]),
                 !.TagsCriteria.Qualifier = NameablesApply(@, mp, ords[4])]
        ELSE [w EXCEPT !.SpecializationCriteria.Qualifier = sp1]

(***************************************************************************)
(* The WeaponBonus component: two bonuses whose map keys are computed, and *)
(* a nameable map that the first bonus fills or applies.                   *)
(***************************************************************************)
\* the comparison operators of a criteria.String that the model uses
StringCompares == {"Any", "Is", "Contains"}

StringCriteria(compare, qualifier) == [Compare |-> compare, Qualifier |-> qualifier]

\* newWeaponDamageBonus(t) with the fields a document may set
WeaponBonus(type, percent, selection, name, specialization, tags) ==
    [Type |-> type, Percent |-> percent, SelectionType |-> selection,
     NameCriteria |-> name, SpecializationCriteria |-> specialization,
     RelativeLevelCriteria |-> [Compare |-> "AtLeast", Qualifier |-> 0],
     TagsCriteria |-> tags,
     LeveledAmount |-> [Level |-> 0, PerLevel |-> FALSE, Amount |-> From(1)],
     owner |-> "nil"]

\* NewWeaponDamageBonus()
NewWeaponDamageBonus ==
    WeaponBonus("WeaponBonusType", FALSE, "WithRequiredSkill", StringCriteria("Is", <<>>),
                StringCriteria("Any", <<>>), StringCriteria("Any", <<>>))

\* bonuses as read from a document, an unknown selection type included
KeyBonuses ==
    {WeaponBonus("WeaponBonusType", percent, sel, StringCriteria(nc, nq),
                 StringCriteria(sc, <<>>), StringCriteria(tc, <<>>)) :
        percent \in BOOLEAN, sel \in SelectionTypes \cup {"Unknown"},
        nc \in StringCompares, nq \in {<<"a">>, <<"b">>},
        sc \in {"Any", "Is"}, tc \in {"Any", "Is"}}

\* bonuses whose qualifiers hold nameable keys
NameableBonuses ==
    {WeaponBonus("WeaponBonusType", FALSE, sel, StringCriteria("Is", nq),
                 StringCriteria("Any", sq), StringCriteria("Any", tq)) :
        sel \in SelectionTypes \cup {"Unknown"},
        nq \in {<<"a">>, <<At, "a", At>>},
        sq \in {<<>>, <<At, "a", At>>, <<At, "b", At>>, <<At, At, "a", At, At>>},
        tq \in {<<>>, <<At, "b", At>>}}

NoKey == [returned |-> FALSE, fatal |-> FALSE, key |-> <<>>]

NoNameableCall == [op |-> "none", bonus |-> NewWeaponDamageBonus, map |-> <<>>]

WbIdle ==
    /\ bonuses = <<NewWeaponDamageBonus, NewWeaponDamageBonus>>
    /\ keys = <<NoKey, NoKey>>
    /\ wbMap = <<>>
    /\ wbLast = NoNameableCall

WbInitKeys ==
    /\ bonuses \in KeyBonuses \X KeyBonuses
    /\ keys = <<NoKey, NoKey>>
    /\ wbMap = <<>>
    /\ wbLast = NoNameableCall

WbInitNameables ==
    /\ \E w \in NameableBonuses : bonuses = <<w, NewWeaponDamageBonus>>
    /\ keys = <<NoKey, NoKey>>
    /\ wbMap \in Maps
    /\ wbLast = NoNameableCall

\* the process has been ended by jot.Fatal
Terminated == \E i \in {1, 2} : keys[i].fatal

\* a caller runs bonuses[i].FeatureMapKey()
CallFeatureMapKey(i) ==
    /\ ~Terminated
    /\ keys[i] = NoKey
    /\ keys' = [keys EXCEPT ![i] = FeatureMapKey(bonuses[i])]
    /\ UNCHANGED <<bonuses, wbMap, wbLast>>

KeyFirst == CallFeatureMapKey(1)
KeySecond == CallFeatureMapKey(2)

\* a caller runs bonuses[1].FillWithNameableKeys(wbMap)
CallFillWithNameableKeys ==
    /\ wbLast.op = "none"
    /\ wbMap' = FillWithNameableKeys(bonuses[1], wbMap)
    /\ wbLast' = [op |-> "fill", bonus |-> bonuses[1], map |-> wbMap]
    /\ UNCHANGED <<bonuses, keys>>

\* a caller runs bonuses[1].ApplyNameableKeys(wbMap); Go picks the map orders
CallApplyNameableKeys ==
    /\ wbLast.op \in {"none", "fill"}
    /\ \E ords \in [1..4 -> Orders(wbMap)] :
          bonuses' = [bonuses EXCEPT ![1] = ApplyNameableKeys(bonuses[1], wbMap, ords)]
    /\ wbLast' = [op |-> "apply", bonus |-> bonuses[1], map |-> wbMap]
    /\ UNCHANGED <<keys, wbMap>>

(***************************************************************************)
(* Clone. Objects live in a heap, a sequence indexed by address; a struct  *)
(* field that is itself a struct (WeightCriteria, criteria.String,         *)
(* LeveledAmount) is part of the object, a pointer or interface field      *)
(* (Parent, owner) holds the name of what it refers to.                    *)
(***************************************************************************)
\* the outcome of a Clone call: the heap after it and the address returned
Allocated(hp, object) == [heap |-> Append(hp, object), addr |-> Len(hp) + 1]

\* a Clone that copies the struct and leaves Parent as it was
PrereqCloneKeepingParent(hp, c, parent) == Allocated(hp, hp[c])

\* ContainedWeightPrereq.Clone(parent): clone := *c; clone.Parent = parent; return &clone
PrereqClone(hp, c, parent) == Allocated(hp, [hp[c] EXCEPT !.Parent = parent])

\* WeaponBonus.Clone(): other := *w; return &other
BonusClone(hp, w) == Allocated(hp, hp[w])

(***************************************************************************)
(* The clone component: one rule object is cloned, and then a field of the *)
(* original or of the clone is assigned.                                   *)
(***************************************************************************)
\* a ContainedWeightPrereq in memory
PrereqObject(c, parent) ==
    [Parent |-> parent, Type |-> ContainedWeight, Has |-> c.Has,
     WeightCriteria |-> [Compare |-> c.Compare, Qualifier |-> c.Qualifier]]

PrereqLists == {"nil", "listA", "listB"}
Owners == {"nil", "ownerA", "ownerB"}

PrereqObjects == {PrereqObject(c, parent) : c \in Prereqs, parent \in {"nil", "listA"}}
BonusObjects == {[w EXCEPT !.owner = o] : w \in NameableBonuses, o \in {"nil", "ownerA"}}

PrereqFields == {"Parent", "Has", "Compare", "Qualifier"}
BonusFields == {"Percent", "SelectionType", "NameQualifier", "Amount", "owner"}

\* the object after an assignment of a new value to one of its fields
Assigned(object, field) ==
    CASE field = "Parent" ->
           [object EXCEPT !.Parent = IF @ = "listB" THEN "listA" ELSE "listB"]
      [] field = "Has" -> [object EXCEPT !.Has = ~@]
      [] field = "Compare" ->
           [object EXCEPT !.WeightCriteria.Compare =
                              IF @ = "AnyNumber" THEN "EqualsNumber" ELSE "AnyNumber"]
      [] field = "Qualifier" -> [object EXCEPT !.WeightCriteria.Qualifier = @ + 1]
      [] field = "Percent" -> [object EXCEPT !.Percent = ~@]
      [] field = "SelectionType" ->
           [object EXCEPT !.SelectionType =
                              IF @ = "ThisWeapon" THEN "WithName" ELSE "ThisWeapon"]
      [] field = "NameQualifier" -> [object EXCEPT !.NameCriteria.Qualifier = @ \o <<"b">>]
      [] field = "Amount" -> [object EXCEPT !.LeveledAmount.Amount = @ + From(1)]
      [] field = "owner" ->
           [object EXCEPT !.owner = IF @ = "ownerB" THEN "ownerA" ELSE "ownerB"]

NoClone ==
    [op |-> "none", kind |-> "prereq", src |-> 0, dst |-> 0, parent |-> "nil",
     before |-> <<>>, after |-> <<>>, changed |-> 0]

ClIdle ==
    /\ heap = <<>>
    /\ cloned = NoClone

ClInit ==
    /\ \E o \in PrereqObjects \cup BonusObjects : heap = <<o>>
    /\ cloned = NoClone

\* a caller runs heap[1].Clone(parent) on a ContainedWeightPrereq
CallPrereqClone ==
    /\ cloned.op = "none"
    /\ heap[1] \in PrereqObjects
    /\ \E parent \in PrereqLists :
          LET r == PrereqClone(heap, 1, parent)
          IN  /\ heap' = r.heap
              /\ cloned' = [op |-> "cloned", kind |-> "prereq", src |-> 1, dst |-> r.addr,
                            parent |-> parent, before |-> heap, after |-> r.heap,
                            changed |-> 0]

\* a caller runs heap[1].Clone() on a WeaponBonus
CallBonusClone ==
    /\ cloned.op = "none"
    /\ heap[1] \in BonusObjects
    /\ LET r == BonusClone(heap, 1)
       IN  /\ heap' = r.heap
           /\ cloned' = [op |-> "cloned", kind |-> "bonus", src |-> 1, dst |-> r.addr,
                         parent |-> "nil", before |-> heap, after |-> r.heap,
                         changed |-> 0]

\* a caller assigns a field of the original or of the clone
AssignField ==
    /\ cloned.op = "cloned"
    /\ \E a \in {cloned.src, cloned.dst},
          f \in IF cloned.kind = "prereq" THEN PrereqFields ELSE BonusFields :
          /\ heap' = [heap EXCEPT ![a] = Assigned(@, f)]
          /\ cloned' = [cloned EXCEPT !.op = "changed", !.changed = a]

ClNext ==
    \/ CallPrereqClone
    \/ CallBonusClone
    \/ AssignField

(***************************************************************************)
(* contained_weight_prereq.go: SkillDefault.Equivalent                     *)
(***************************************************************************)
\* s.Equivalent(replacements, other). Each of the four substitutions is a
\* call of ApplyNameables that ranges over the map on its own: ords[1] and
\* ords[2] are the orders of the two name substitutions, ords[3] and ords[4]
\* those of the two specialization substitutions.
Equivalent(s, replacements, other, otherNil, ords) ==
    /\ ~otherNil
    /\ s.DefaultType = other.DefaultType
    /\ s.Modifier = other.Modifier
    /\ ApplyNameables(s.Name, replacements, ords[1])
         = ApplyNameables(other.Name, replacements, ords[2])
    /\ ApplyNameables(s.Specialization, replacements, ords[3])
         = ApplyNameables(other.Specialization, replacements, ords[4])

(***************************************************************************)
(* The equivalence component: a SkillDefault is compared with itself, with *)
(* another SkillDefault or with nil, under a replacement map.              *)
(***************************************************************************)
\* SkillDefaults with their transient fields
ComparedDefaults ==
    [DefaultType : {SkillID, "dx"},
     Name : {<<"a">>, <<At, "a", At>>, <<At, "a", At, "b", At>>},
     Specialization : {<<>>, <<At, "b", At>>}, Modifier : {0, From(1)},
     Level : {0, From(12)}, AdjLevel : {0}, Points : {0}]
    \cup [DefaultType : {SkillID}, Name : {<<"a">>}, Specialization : {<<>>},
          Modifier : {0}, Level : {0}, AdjLevel : {0, From(11)}, Points : {0, From(4)}]

\* other is s itself ("self"), another SkillDefault ("other") or nil ("nil")
Compared(s, other, ref, replacements) ==
    [s |-> s, other |-> other, ref |-> ref, replacements |-> replacements,
     called |-> FALSE, result |-> FALSE]

EqIdle ==
    eq = Compared(NoDefault, NoDefault, "nil", <<>>)

EqInit ==
    \E s \in ComparedDefaults, replacements \in Maps :
        \/ eq = Compared(s, s, "self", replacements)
        \/ eq = Compared(s, s, "nil", replacements)
        \/ \E other \in ComparedDefaults : eq = Compared(s, other, "other", replacements)

\* a caller runs s.Equivalent(replacements, other)
CallEquivalent ==
    /\ ~eq.called
    /\ \E ords \in [1..4 -> Orders(eq.replacements)] :
          eq' = [eq EXCEPT !.called = TRUE,
                           !.result = Equivalent(eq.s, eq.replacements, eq.other,
                                                 eq.ref = "nil", ords)]

(***************************************************************************)
(* part_001 (package ux): Template.applyTemplateToSheet                    *)
(*                                                                         *)
(* A sheet's data are what the call may change: whether the entity's       *)
(* ancestry traits are absent ("none"), active or disabled, the root rows  *)
(* of its five tables, and how often its profile has been randomized. A    *)
(* row is "own" (on the sheet before), "item" (a plain row of the          *)
(* template) or "picker" (a template container with a template picker).    *)
(***************************************************************************)
Tables == {"Traits", "Skills", "Spells", "CarriedEquipment", "Notes"}

\* NewApplyTemplateUndoEditData(sheet): the sheet's data as they are, or an error
NewApplyTemplateUndoEditData(sh, fails) ==
    [err |-> fails, data |-> sh.data]

\* ApplyTemplateUndoEditData.Apply(): the sheet holds the captured data again
ApplyData(sh, data) == [sh EXCEPT !.data = data]

\* processPickerRows(rows): a plain row is kept; a picker row runs its dialog,
\* whose outcome (pick; a table of the model holds one picker row at most) is
\* cancel, when the dialog is cancelled or cannot be created, or the number
\* of children picked, which replace the row
RECURSIVE processPickerRows(_, _, _, _)
processPickerRows(rows, pick, j, revised) ==
    IF j > Len(rows) THEN [rows |-> revised, abort |-> FALSE]
    ELSE IF rows[j] # "picker" THEN processPickerRows(rows, pick, j + 1, Append(revised, rows[j]))
    ELSE IF pick.cancel THEN [rows |-> <<>>, abort |-> TRUE]
    ELSE processPickerRows(rows, pick, j + 1, revised \o [k \in 1..pick.picked |-> "item"])

\* appendRows(table, rows)
appendRows(table, rows) == table \o rows

\* t.applyTemplateToSheet(sheet, suppressRandomizePrompt). The template t has
\* an active ancestry or not and root rows per table. env holds what the
\* collaborators answer during the call: beforeFails and afterFails (the two
\* NewApplyTemplateUndoEditData calls), disable (the answer to "Disable your
\* character's existing Ancestry?"), picks (per table, the outcome of its picker),
\* autoFill (General.AutoFillProfile) and randomize (the answer to "apply the
\* initial randomization again?"). The result is the sheet after the call
\* and what the call returned.
applyTemplateToSheet(t, sh, suppressRandomizePrompt, env) ==
    LET before == NewApplyTemplateUndoEditData(sh, env.beforeFails)
        hasUndo == sh.hasMgr /\ ~before.err
        disabling == t.ancestry /\ sh.data.ancestry = "active" /\ env.disable
        sh1 == IF disabling THEN [sh EXCEPT !.data.ancestry = "disabled"] ELSE sh
        traits == processPickerRows(t.rows["Traits"], env.picks["Traits"], 1, <<>>)
        skills == processPickerRows(t.rows["Skills"], env.picks["Skills"], 1, <<>>)
        spells == processPickerRows(t.rows["Spells"], env.picks["Spells"], 1, <<>>)
        added == [tb \in Tables |->
                    CASE tb = "Traits" -> traits.rows
                      [] tb = "Skills" -> skills.rows
                      [] tb = "Spells" -> spells.rows
                      [] OTHER -> t.rows[tb]]
        sh2 == [sh1 EXCEPT !.data.rows = [tb \in Tables |-> appendRows(@[tb], added[tb])]]
        randomize == t.ancestry /\ env.autoFill /\ (suppressRandomizePrompt \/ env.randomize)
        sh3 == IF randomize THEN [sh2 EXCEPT !.data.randomized = @ + 1] ELSE sh2
        after == NewApplyTemplateUndoEditData(sh3, env.afterFails)
        sh4 == IF hasUndo /\ ~after.err
               THEN [sh3 EXCEPT !.edits = Append(@, [BeforeData |-> before.data,
                                                    AfterData |-> after.data])]
               ELSE sh3
    IN  IF traits.abort \/ skills.abort \/ spells.abort
        THEN [sheet |-> sh1, returned |-> FALSE, captured |-> FALSE]
        ELSE [sheet |-> sh4, returned |-> TRUE, captured |-> hasUndo /\ ~after.err]

(***************************************************************************)
(* The apply-template component: a template is applied to a sheet once,    *)
(* and the edit the call added, if any, is undone and redone.              *)
(***************************************************************************)
Templates ==
    {[ancestry |-> a, rows |-> [tb \in Tables |-> CASE tb = "Traits" -> tr
                                                    [] tb = "Skills" -> sk
                                                    [] tb = "Spells" -> sp
                                                    [] tb = "Notes" -> <<"item">>
                                                    [] OTHER -> <<>>]] :
        a \in BOOLEAN, tr \in {<<>>, <<"item">>, <<"picker">>, <<"item", "picker">>},
        sk \in {<<>>, <<"picker">>}, sp \in {<<>>, <<"picker">>}}

Environments ==
    [beforeFails : BOOLEAN, afterFails : BOOLEAN, disable : BOOLEAN,
     picks : [{"Traits", "Skills", "Spells"} -> [cancel : BOOLEAN, picked : 0..1]],
     autoFill : BOOLEAN, randomize : BOOLEAN]

NoApply ==
    [called |-> FALSE, returned |-> FALSE, captured |-> FALSE,
     before |-> [hasMgr |-> FALSE, edits |-> <<>>, undone |-> FALSE,
                 data |-> [ancestry |-> "none", rows |-> [tb \in Tables |-> <<>>],
                           randomized |-> 0]]]

AtIdle ==
    /\ sheet = NoApply.before
    /\ applied = NoApply

AtInit ==
    /\ \E hasMgr \in BOOLEAN, ancestry \in {"none", "active", "disabled"} :
          sheet = [hasMgr |-> hasMgr, edits |-> <<>>, undone |-> FALSE,
                   data |-> [ancestry |-> ancestry,
                             rows |-> [tb \in Tables |-> IF tb = "Traits" THEN <<"own">>
                                                         ELSE <<>>],
                             randomized |-> 0]]
    /\ applied = NoApply

\* a caller runs t.applyTemplateToSheet(sheet, suppressRandomizePrompt)
CallApplyTemplateToSheet ==
    /\ ~applied.called
    /\ \E t \in Templates, suppress \in BOOLEAN, env \in Environments :
          LET o == applyTemplateToSheet(t, sheet, suppress, env)
          IN  /\ sheet' = o.sheet
              /\ applied' = [called |-> TRUE, returned |-> o.returned,
                             captured |-> o.captured, before |-> sheet]

\* the undo manager runs the UndoFunc of the last edit: e.BeforeData.Apply()
UndoApplyTemplate ==
    /\ sheet.edits # <<>> /\ ~sheet.undone
    /\ sheet' = [ApplyData(sheet, sheet.edits[Len(sheet.edits)].BeforeData)
                    EXCEPT !.undone = TRUE]
    /\ UNCHANGED applied

\* the undo manager runs the RedoFunc of the edit undone: e.AfterData.Apply()
RedoApplyTemplate ==
    /\ sheet.edits # <<>> /\ sheet.undone
    /\ sheet' = [ApplyData(sheet, sheet.edits[Len(sheet.edits)].AfterData)
                    EXCEPT !.undone = FALSE]
    /\ UNCHANGED applied

(***************************************************************************)
(* part_001 (package ux): Template.save and Template.Modified              *)
(*                                                                         *)
(* The content of the gurps.Template is a number that every edit changes.  *)
(***************************************************************************)
\* gurps.Template.CRC64(): a checksum of the content; contents may collide
CRC64(content) == (content * content) % 5

\* Template.Modified()
Modified(t) == t.crc # CRC64(t.template)

\* NewTemplate(filePath, template)
NewTemplate(filePath, template) ==
    [path |-> filePath, template |-> template, crc |-> CRC64(template),
     needsSaveAsPrompt |-> TRUE]

\* NewTemplateFromFile(filePath), when the file loads as template
NewTemplateFromFile(filePath, template) ==
    [NewTemplate(filePath, template) EXCEPT !.needsSaveAsPrompt = FALSE]

\* The callbacks save hands over are closures over t. setUnmodified is
\* modelled by the template it leaves, setUnmodifiedAndNewPath by the
\* function from the path it is given to the template it leaves.
\*
\* SaveDockable(d, saver, setUnmodified): the template is written to the
\* dockable's path; when that worked (ok) setUnmodified runs and the call
\* returns true, otherwise it returns false
SaveDockable(t, ok, setUnmodified) ==
    IF ok THEN [t |-> setUnmodified, success |-> TRUE]
    ELSE [t |-> t, success |-> FALSE]

\* SaveDockableAs(d, extension, saver, setUnmodifiedAndNewPath): the user is
\* asked for a path; when one was chosen and the template was written to it
\* (choice.ok) setUnmodifiedAndNewPath runs with the path and the call returns
\* true, otherwise (cancelled, or not written) it returns false
SaveDockableAs(t, choice, setUnmodifiedAndNewPath) ==
    IF choice.ok THEN [t |-> setUnmodifiedAndNewPath[choice.path], success |-> TRUE]
    ELSE [t |-> t, success |-> FALSE]

\* a save that clears needsSaveAsPrompt whether or not the file was saved
saveClearingPromptAlways(t, forceSaveAs, choice) ==
    LET saveAs == forceSaveAs \/ t.needsSaveAsPrompt
        r == IF saveAs
             THEN SaveDockableAs(t, choice,
                      [path \in {choice.path} |->
                          [t EXCEPT !.crc = CRC64(t.template), !.path = path]])
             ELSE SaveDockable(t, choice.ok, [t EXCEPT !.crc = CRC64(t.template)])
    IN  [t |-> [r.t EXCEPT !.needsSaveAsPrompt = FALSE],
         success |-> r.success, saveAs |-> saveAs]

\* t.save(forceSaveAs): the template after the call, what the call returned,
\* and whether it took the Save-As path; choice is what the user and the
\* file system answer
save(t, forceSaveAs, choice) ==
    LET saveAs == forceSaveAs \/ t.needsSaveAsPrompt
        r == IF saveAs
             THEN SaveDockableAs(t, choice,
                      [path \in {choice.path} |->
                          [t EXCEPT !.crc = CRC64(t.template), !.path = path]])
             ELSE SaveDockable(t, choice.ok, [t EXCEPT !.crc = CRC64(t.template)])
    IN  [t |-> IF r.success THEN [r.t EXCEPT !.needsSaveAsPrompt = FALSE] ELSE r.t,
         success |-> r.success, saveAs |-> saveAs]

(***************************************************************************)
(* The save component: a template, new or read from a file, is edited and  *)
(* saved, in any order, any number of times.                               *)
(***************************************************************************)
Contents == 0..3
Paths == {"untitled.gct", "a.gct", "b.gct"}

NoSave ==
    [op |-> "none", forceSaveAs |-> FALSE, saveAs |-> FALSE, success |-> FALSE,
     before |-> NewTemplate("untitled.gct", 0)]

SvIdle ==
    /\ doc = NoSave.before
    /\ saved = NoSave

SvInit ==
    /\ \E template \in Contents :
          \/ doc = NewTemplate("untitled.gct", template)
          \/ doc = NewTemplateFromFile("a.gct", template)
    /\ saved = [NoSave EXCEPT !.before = doc]

\* the user edits the template: its content changes
EditTemplate ==
    /\ \E template \in Contents \ {doc.template} :
          doc' = [doc EXCEPT !.template = template]
    /\ saved' = [NoSave EXCEPT !.op = "edit", !.before = doc]

\* a caller runs t.save(forceSaveAs)
CallSave ==
    \E forceSaveAs \in BOOLEAN, choice \in [ok : BOOLEAN, path : Paths \ {"untitled.gct"}] :
        LET o == save(doc, forceSaveAs, choice)
        IN  /\ doc' = o.t
            /\ saved' = [op |-> "save", forceSaveAs |-> forceSaveAs, saveAs |-> o.saveAs,
                         success |-> o.success, before |-> doc]

(***************************************************************************)
(* Specifications                                                          *)
(***************************************************************************)
Init == NmInit /\ CwIdle /\ SdIdle /\ HsIdle /\ WbIdle /\ ClIdle /\ EqIdle /\ AtIdle /\ SvIdle
Next == NmNext /\ UNCHANGED <<cwVars, sdVars, hsVars, wbVars, clVars, eqVars, atVars, svVars>>
Spec == Init /\ [][Next]_vars

InitPrereq == NmIdle /\ CwInit /\ SdIdle /\ HsIdle /\ WbIdle /\ ClIdle /\ EqIdle /\ AtIdle /\ SvIdle
NextPrereq == CwNext /\ UNCHANGED <<nmVars, sdVars, hsVars, wbVars, clVars, eqVars, atVars, svVars>>
SpecPrereq == InitPrereq /\ [][NextPrereq]_vars

InitSkillChain == NmIdle /\ CwIdle /\ InitChain /\ HsIdle /\ WbIdle /\ ClIdle /\ EqIdle /\ AtIdle /\ SvIdle
NextSkillChain == ResolveChain /\ UNCHANGED <<nmVars, cwVars, hsVars, wbVars, clVars, eqVars, atVars, svVars>>
SpecSkillChain == InitSkillChain /\ [][NextSkillChain]_vars

InitSkillLevels == NmIdle /\ CwIdle /\ InitLevels /\ HsIdle /\ WbIdle /\ ClIdle /\ EqIdle /\ AtIdle /\ SvIdle
NextSkillLevels == (ResolveLevel \/ ResolveLevelFast) /\ UNCHANGED <<nmVars, cwVars, hsVars, wbVars, clVars, eqVars, atVars, svVars>>
SpecSkillLevels == InitSkillLevels /\ [][NextSkillLevels]_vars

InitSkillAttr == NmIdle /\ CwIdle /\ InitAttr /\ HsIdle /\ WbIdle /\ ClIdle /\ EqIdle /\ AtIdle /\ SvIdle
NextSkillAttr == (ResolveAttr \/ ResolveAttrFast) /\ UNCHANGED <<nmVars, cwVars, hsVars, wbVars, clVars, eqVars, atVars, svVars>>
SpecSkillAttr == InitSkillAttr /\ [][NextSkillAttr]_vars

InitHash == NmIdle /\ CwIdle /\ SdIdle /\ HsInit /\ WbIdle /\ ClIdle /\ EqIdle /\ AtIdle /\ SvIdle
NextHash == HsNext /\ UNCHANGED <<nmVars, cwVars, sdVars, wbVars, clVars, eqVars, atVars, svVars>>
SpecHash == InitHash /\ [][NextHash]_vars

InitWeaponKeys == NmIdle /\ CwIdle /\ SdIdle /\ HsIdle /\ WbInitKeys /\ ClIdle /\ EqIdle /\ AtIdle /\ SvIdle
NextWeaponKeys == (KeyFirst \/ KeySecond) /\ UNCHANGED <<nmVars, cwVars, sdVars, hsVars, clVars, eqVars, atVars, svVars>>
SpecWeaponKeys == InitWeaponKeys /\ [][NextWeaponKeys]_vars

InitWeaponNameables == NmIdle /\ CwIdle /\ SdIdle /\ HsIdle /\ WbInitNameables /\ ClIdle /\ EqIdle /\ AtIdle /\ SvIdle
NextWeaponNameables ==
    (CallFillWithNameableKeys \/ CallApplyNameableKeys)
    /\ UNCHANGED <<nmVars, cwVars, sdVars, hsVars, clVars, eqVars, atVars, svVars>>
SpecWeaponNameables == InitWeaponNameables /\ [][NextWeaponNameables]_vars

InitClone == NmIdle /\ CwIdle /\ SdIdle /\ HsIdle /\ WbIdle /\ ClInit /\ EqIdle /\ AtIdle /\ SvIdle
NextClone == ClNext /\ UNCHANGED <<nmVars, cwVars, sdVars, hsVars, wbVars, eqVars, atVars, svVars>>
SpecClone == InitClone /\ [][NextClone]_vars

InitEquivalent == NmIdle /\ CwIdle /\ SdIdle /\ HsIdle /\ WbIdle /\ ClIdle /\ EqInit /\ AtIdle /\ SvIdle
NextEquivalent == CallEquivalent /\ UNCHANGED <<nmVars, cwVars, sdVars, hsVars, wbVars, clVars, atVars, svVars>>
SpecEquivalent == InitEquivalent /\ [][NextEquivalent]_vars

InitApplyTemplate == NmIdle /\ CwIdle /\ SdIdle /\ HsIdle /\ WbIdle /\ ClIdle /\ EqIdle /\ AtInit /\ SvIdle
NextApplyTemplate ==
    (CallApplyTemplateToSheet \/ UndoApplyTemplate \/ RedoApplyTemplate)
    /\ UNCHANGED <<nmVars, cwVars, sdVars, hsVars, wbVars, clVars, eqVars, svVars>>
SpecApplyTemplate == InitApplyTemplate /\ [][NextApplyTemplate]_vars

InitSave == NmIdle /\ CwIdle /\ SdIdle /\ HsIdle /\ WbIdle /\ ClIdle /\ EqIdle /\ AtIdle /\ SvInit
NextSave ==
    (EditTemplate \/ CallSave)
    /\ UNCHANGED <<nmVars, cwVars, sdVars, hsVars, wbVars, clVars, eqVars, atVars>>
SpecSave == InitSave /\ [][NextSave]_vars

(***************************************************************************)
(* Claims about the nameables component (specification Spec)               *)
(***************************************************************************)
\* the markers of str are balanced: an even number of them
Balanced(str) == Count(str, At) % 2 = 0

\* the keys of the tokens of str: its odd-indexed segments before the last marker
TokenKeys(str) ==
    LET parts == Split(str, At)
    IN  {parts[i + 1] : i \in {j \in 0..(Len(parts) - 1) : j % 2 = 1 /\ j < Count(str, At)}}

\* str with each token @key@ replaced by mp[key], the text outside the tokens kept
RECURSIVE SubstituteFrom(_, _, _)
SubstituteFrom(parts, i, mp) ==
    IF i >= Len(parts) THEN <<>>
    ELSE (IF i % 2 = 1 THEN mp[parts[i + 1]] ELSE parts[i + 1])
         \o SubstituteFrom(parts, i + 1, mp)

Substituted(str, mp) == SubstituteFrom(Split(str, At), 0, mp)

NoMarkerInValues(mp) == \A k \in DOMAIN mp : Count(mp[k], At) = 0

\* C3: for a text with balanced markers and a map holding a value for every
\* extracted key, ApplyNameables returns the text with each token replaced by
\* its value and the rest kept, whatever the order the keys are visited in.
C3_ApplyReplacesTokens ==
    (nmPc = "applied" /\ Balanced(text) /\ TokenKeys(text) \subseteq DOMAIN m)
        => out = Substituted(text, m)

\* C3 on the maps that hold exactly the extracted keys and no marker in a value
C3_ApplyReplacesTokensExactMap ==
    (nmPc = "applied" /\ Balanced(text) /\ TokenKeys(text) = DOMAIN m
     /\ NoMarkerInValues(m))
        => out = Substituted(text, m)

\* C4: with no marker in any value of the map, a second ApplyNameables with
\* the same map returns the result of the first unchanged.
C4_ReapplyIdempotent ==
    (nmPc = "reapplied" /\ NoMarkerInValues(m)) => out2 = out

\* C5: ApplyNameables returns the same string for every order in which the
\* keys of the map are visited.
C5_OrderIndependent ==
    nmPc = "applied" => \A ord \in Orders(m) : ApplyNameables(text, m, ord) = out

(***************************************************************************)
(* Claims about ContainedWeightPrereq (specification SpecPrereq)           *)
(***************************************************************************)
IsContainer(exclude) == IsEquipment(exclude) /\ exclude.container

\* C6 as stated: Satisfied returns false whenever the excluded item is not a
\* container, whatever Has is.
C6_NonContainerUnsatisfied ==
    (call.n > 0 /\ ~IsContainer(call.exclude)) => ~call.satisfied

\* C6 as amended: for an excluded item that is not a container the weight
\* criteria play no part: Satisfied returns Has when the item is equipment
\* (the check counts as satisfied) and the negation of Has when it is not
\* equipment at all (the check counts as unsatisfied).
C6_NonContainerFollowsHas ==
    (call.n > 0 /\ ~IsContainer(call.exclude))
        => call.satisfied = (IF IsEquipment(call.exclude) THEN prereq.Has ELSE ~prereq.Has)

C6_Witness ==
    /\ call.n > 0
    /\ IsEquipment(call.exclude) /\ ~call.exclude.container
    /\ prereq.Has /\ call.satisfied

\* C7: Satisfied returns the outcome of the check when Has is true and its
\* negation when Has is false; the buffer grows exactly when the returned
\* value is false and a buffer was supplied, and then by prefix, the phrase
\* chosen by Has, and the description of the condition, once.
C7_TruthTableAndTooltip ==
    call.n > 0 =>
        /\ call.satisfied = (IF prereq.Has
                             THEN VariantSatisfied(prereq, call.exclude)
                             ELSE ~VariantSatisfied(prereq, call.exclude))
        /\ tooltip = IF ~call.satisfied /\ call.hasBuf
                     THEN call.before \o <<call.prefix,
                                           IF prereq.Has THEN "has" ELSE "does not have",
                                           " a contained weight which ",
                                           CriteriaString(prereq)>>
                     ELSE call.before

C7_Witness ==
    /\ call.n > 1
    /\ ~call.satisfied /\ call.hasBuf /\ prereq.Has
    /\ IsContainer(call.exclude)
    /\ Len(tooltip) = Len(call.before) + 4
    /\ Len(call.before) > 0

(***************************************************************************)
(* Claims about the SkillDefault resolver                                  *)
(***************************************************************************)
Answered == res.path \in {"full", "fast"}

\* the skills the lookup of the last resolution returns
Matching ==
    {i \in 1..Len(entity.Skills) :
        /\ i \notin res.excludes
        /\ (res.requirePoints => entity.Skills[i].Points > 0)
        /\ entity.Skills[i].Name = ApplyNameables(res.s.Name, res.replacements,
                                                  OnlyOrder(res.replacements))
        /\ LET sp == ApplyNameables(res.s.Specialization, res.replacements,
                                    OnlyOrder(res.replacements))
           IN  sp = <<>> \/ entity.Skills[i].Specialization = sp}

Cached(i) == entity.Skills[i].Level
Recomputed(i) == CalculateLevel(entity, i, res.excludes, 0).lvl

\* the highest of a set of levels, the sentinel for the empty set
MaxLevel(levels) ==
    IF levels = {} THEN fxpMin ELSE CHOOSE v \in levels : \A w \in levels : w <= v

\* the best level the path of the last resolution found
BestFound ==
    IF res.path = "full"
    THEN best(res.s, entity, res.replacements, res.requirePoints, res.excludes, 0).lvl
    ELSE bestFast(res.s, entity, res.replacements, res.requirePoints, res.excludes)

\* half of a level as a whole number, rounded down and rounded toward zero
FloorHalf(b) == (b \div (2 * Multiplier)) * Multiplier
TruncHalf(b) ==
    IF b >= 0 THEN (b \div (2 * Multiplier)) * Multiplier
    ELSE -(((-b) \div (2 * Multiplier)) * Multiplier)

\* C1 (specification SpecSkillChain): resolving a default whose chain of
\* defaults is cyclic terminates: the calls never nest deeper than the
\* entity has skills, no skill is evaluated while it is in the exclusion
\* set, and a call nested d deep runs with d more excluded skills than the
\* caller supplied (each skill in progress was added before recursing).
C1_CycleTerminates ==
    res.path = "full" =>
        /\ ~res.over
        /\ \A c \in res.calls :
              /\ c[1] \notin c[2]
              /\ res.excludes \subseteq c[2]
              /\ Cardinality(c[2]) = Cardinality(res.excludes) + c[3]

\* a chain a -> b -> a was resolved: b was evaluated on behalf of a
C1_Witness ==
    /\ res.path = "full"
    /\ \E a, b \in 1..Len(entity.Skills) :
          /\ a # b
          /\ entity.Skills[a].HasDefault /\ entity.Skills[b].HasDefault
          /\ entity.Skills[a].Default.Name = entity.Skills[b].Name
          /\ entity.Skills[b].Default.Name = entity.Skills[a].Name
          /\ <<a, res.excludes, 0>> \in res.calls
          /\ <<b, res.excludes \cup {a}, 1>> \in res.calls

\* C2 (specification SpecSkillLevels): when the cached level of every
\* candidate is the level CalculateLevel returns for it, SkillLevel and
\* SkillLevelFast return the same value for the same arguments.
CachedCurrent == \A i \in Matching : Cached(i) = Recomputed(i)

C2_FullEqualsFast ==
    (Answered /\ CachedCurrent) =>
        res.lvl = IF res.path = "full"
                  THEN SkillLevelFast(res.s, entity, res.replacements, res.requirePoints,
                                      res.excludes, res.ruleOf20)
                  ELSE SkillLevel(res.s, entity, res.replacements, res.requirePoints,
                                  res.excludes, res.ruleOf20, 0).lvl

C2_Witness ==
    /\ res.path = "full" /\ CachedCurrent
    /\ res.s.DefaultType = ParryID
    /\ Cardinality(Matching) = 2
    /\ \E i, j \in Matching : Cached(i) # fxpMin /\ Cached(j) # fxpMin /\ Cached(i) < Cached(j)
    /\ res.lvl # fxpMin

Bonus == IF res.s.DefaultType = ParryID THEN entity.ParryBonus ELSE entity.BlockBonus

\* C8 as stated (specification SpecSkillLevels): for Parry and Block, with a
\* matching skill and best level b the result is floor(b/2) + 3 + the bonus
\* + Modifier; with no matching skill it is the sentinel.
C8_ParryBlockFloor ==
    (Answered /\ res.s.DefaultType \in {ParryID, BlockID}) =>
        IF Matching # {}
        THEN res.lvl = FloorHalf(BestFound) + From(3) + Bonus + res.s.Modifier
        ELSE res.lvl = fxpMin

\* C8 as amended: when the best level b is not the sentinel the result is
\* b/2 rounded toward zero + 3 + the bonus + Modifier; when no skill matches,
\* or none that matches has a level (b is the sentinel), the result is the
\* sentinel, with neither the bonus nor the Modifier added.
C8_ParryBlockTrunc ==
    (Answered /\ res.s.DefaultType \in {ParryID, BlockID}) =>
        /\ (Matching = {} => BestFound = fxpMin)
        /\ res.lvl = IF BestFound # fxpMin
                     THEN TruncHalf(BestFound) + From(3) + Bonus + res.s.Modifier
                     ELSE fxpMin

\* a Parry resolved from a best level of -3: -1 + 3 + bonus + Modifier
C8_Witness ==
    /\ Answered /\ res.s.DefaultType = ParryID
    /\ BestFound = From(-3)
    /\ res.lvl = From(2) + entity.ParryBonus + res.s.Modifier

CachedNotBelow == \A i \in Matching : Cached(i) >= Recomputed(i)

AttributeType == res.s.DefaultType \notin {SkillID, ParryID, BlockID, DodgeID}

CappedAt20(v) == IF res.ruleOf20 /\ v > From(20) THEN From(20) ELSE v

Written(i) == SubSeq(hashers[i].bytes, Len(hashers[i].before) + 1, Len(hashers[i].bytes))

\* both rule objects are SkillDefaults that have been hashed
BothDefaultsHashed ==
    \A i \in {1, 2} : rules[i].kind = "SkillDefault" /\ ~rules[i].isNil /\ hashers[i].called

\* the number of source fields in which two SkillDefaults differ
SourceDifferences(s, t) ==
    Cardinality({f \in {"DefaultType", "Name", "Specialization", "Modifier"} : s[f] # t[f]})

\* the 64-bit integer whose little-endian two's complement is the eight bytes b
DecodeLittleEndian(b) ==
    IF b[8] < 128
    THEN b[1] + 256 * b[2] + 65536 * b[3] + 16777216 * b[4]
    ELSE -((255 - b[1]) + 256 * (255 - b[2]) + 65536 * (255 - b[3])
           + 16777216 * (255 - b[4])) - 1

\* C11 (specification SpecHash): two SkillDefaults with equal DefaultType,
\* Name, Specialization and Modifier feed the same bytes whatever their
\* Level, AdjLevel and Points; two that differ in exactly one of the four
\* feed different bytes; and the bytes are those of DefaultType, Name and
\* Specialization, in that order, followed by the eight bytes of Modifier.
C11_HashOfSourceFields ==
    BothDefaultsHashed =>
        LET s == rules[1].sd
            t == rules[2].sd
            n == Len(Written(1))
        IN  /\ SourceDifferences(s, t) = 0 => Written(1) = Written(2)
            /\ SourceDifferences(s, t) = 1 => Written(1) # Written(2)
            /\ n = Len(s.DefaultType) + Len(s.Name) + Len(s.Specialization) + 8
            /\ SubSeq(Written(1), 1, n - 8)
                  = Bytes(s.DefaultType \o s.Name \o s.Specialization)
            /\ DecodeLittleEndian(SubSeq(Written(1), n - 7, n)) = s.Modifier

\* two hashed SkillDefaults that differ in Level, AdjLevel and Points only
C11_Witness ==
    /\ BothDefaultsHashed
    /\ SourceDifferences(rules[1].sd, rules[2].sd) = 0
    /\ rules[1].sd.Level # rules[2].sd.Level
    /\ rules[1].sd.AdjLevel # rules[2].sd.AdjLevel
    /\ rules[1].sd.Points # rules[2].sd.Points
    /\ rules[1].sd.Name # <<>> /\ rules[1].sd.Modifier < 0
    /\ Written(1) = Written(2)

\* C12 (specification SpecHash): hashing a nil rule object, a
\* ContainedWeightPrereq or a SkillDefault, leaves the hasher's bytes as
\* they were and does not fail.
C12_NilWritesNothing ==
    \A i \in {1, 2} :
        (rules[i].isNil /\ hashers[i].called) =>
            /\ hashers[i].bytes = hashers[i].before
            /\ ~hashers[i].panicked

\* the part of C12 that holds: a nil ContainedWeightPrereq writes nothing
C12_NilPrereqWritesNothing ==
    \A i \in {1, 2} :
        (rules[i].kind = "ContainedWeightPrereq" /\ rules[i].isNil /\ hashers[i].called) =>
            /\ hashers[i].bytes = hashers[i].before
            /\ ~hashers[i].panicked

(***************************************************************************)
(* Claims about WeaponBonus                                                *)
(***************************************************************************)
\* the prefix of the name-based selection types
KeyPrefix(w) == IF w.SelectionType = "WithRequiredSkill" THEN SkillNameID
                ELSE WeaponNamedIDPrefix

NameBased(w) == w.SelectionType \in {"WithRequiredSkill", "WithName"}

\* an exact-match name criterion with wildcard specialization and tags criteria
ExactNameOnly(w) ==
    /\ w.NameCriteria.Compare = "Is"
    /\ w.SpecializationCriteria.Compare = "Any"
    /\ w.TagsCriteria.Compare = "Any"

\* C13 (specification SpecWeaponKeys): the key of a ThisWeapon bonus is
\* ThisWeaponID; the key of a WithRequiredSkill or WithName bonus is its
\* prefix + "/" + the name qualifier exactly when the name comparison is Is
\* and the specialization and tags comparisons are Any, and prefix + "*" in
\* every other case.
C13_FeatureMapKey ==
    \A i \in {1, 2} :
        keys[i].returned =>
            LET w == bonuses[i]
            IN  /\ w.SelectionType = "ThisWeapon" => keys[i].key = ThisWeaponID
                /\ NameBased(w) =>
                      keys[i].key = IF ExactNameOnly(w)
                                    THEN KeyPrefix(w) \o <<"/">> \o w.NameCriteria.Qualifier
                                    ELSE KeyPrefix(w) \o <<"*">>

\* a WithName bonus with an exact name got "weapon_named./a", and a
\* WithRequiredSkill bonus with a tags criterion got "skill.name*"
C13_Witness ==
    /\ keys[1].returned /\ keys[2].returned
    /\ bonuses[1].SelectionType = "WithName" /\ ExactNameOnly(bonuses[1])
    /\ keys[1].key = WeaponNamedIDPrefix \o <<"/", "a">>
    /\ bonuses[2].SelectionType = "WithRequiredSkill"
    /\ bonuses[2].NameCriteria.Compare = "Is"
    /\ bonuses[2].TagsCriteria.Compare # "Any"
    /\ keys[2].key = SkillNameID \o <<"*">>

\* bonuses[2] is bonuses[1] with the specialization comparison changed from Any
SpecializationChanged ==
    /\ bonuses[1].SelectionType \in SelectionTypes
    /\ ExactNameOnly(bonuses[1])
    /\ bonuses[2].SpecializationCriteria.Compare # "Any"
    /\ bonuses[2] = [bonuses[1] EXCEPT !.SpecializationCriteria.Compare =
                                            bonuses[2].SpecializationCriteria.Compare]

SameExactSelection ==
    /\ bonuses[1].SelectionType = bonuses[2].SelectionType
    /\ bonuses[1].NameCriteria = bonuses[2].NameCriteria
    /\ ExactNameOnly(bonuses[1]) /\ ExactNameOnly(bonuses[2])

\* C14 as stated (specification SpecWeaponKeys): two bonuses with the same
\* SelectionType, the same Is name criterion and Any specialization and tags
\* criteria have the same key; and changing the specialization comparison of
\* such a bonus away from Any gives a key that ends in "*", for every valid
\* SelectionType.
C14_WildcardForEverySelection ==
    (keys[1].returned /\ keys[2].returned) =>
        /\ SameExactSelection => keys[1].key = keys[2].key
        /\ SpecializationChanged => keys[2].key[Len(keys[2].key)] = "*"

\* C14 as amended: the same, but the change of the specialization comparison
\* gives prefix + "*" for WithRequiredSkill and WithName only; the key of a
\* ThisWeapon bonus stays ThisWeaponID.
C14_WildcardForNameBased ==
    (keys[1].returned /\ keys[2].returned) =>
        /\ SameExactSelection => keys[1].key = keys[2].key
        /\ SpecializationChanged =>
              /\ NameBased(bonuses[2]) =>
                    /\ keys[2].key = KeyPrefix(bonuses[2]) \o <<"*">>
                    /\ keys[1].key # keys[2].key
              /\ bonuses[2].SelectionType = "ThisWeapon" =>
                    keys[2].key = ThisWeaponID /\ keys[1].key = ThisWeaponID

\* the key of a WithName bonus went from "weapon_named./a" to "weapon_named.*"
C14_Witness ==
    /\ keys[1].returned /\ keys[2].returned
    /\ SpecializationChanged
    /\ bonuses[1].SelectionType = "WithName"
    /\ keys[1].key = WeaponNamedIDPrefix \o <<"/", "a">>
    /\ keys[2].key = WeaponNamedIDPrefix \o <<"*">>

\* C18 (specification SpecWeaponKeys): FeatureMapKey on a bonus whose
\* SelectionType is none of the three takes the fatal path and returns no
\* key, on a bonus with one of the three it returns a key and does not take
\* the fatal path; and once the fatal path is taken no key is computed.
C18_FatalOnInvalidSelection ==
    /\ [](\A i \in {1, 2} :
            keys[i] # NoKey =>
                IF bonuses[i].SelectionType \in SelectionTypes
                THEN keys[i].returned /\ ~keys[i].fatal
                ELSE keys[i].fatal /\ ~keys[i].returned)
    /\ [][Terminated => keys' = keys]_vars

\* FeatureMapKey took the fatal path on a bonus of unknown selection type
\* after the other bonus had got its key
C18_Witness ==
    /\ keys[1].fatal /\ bonuses[1].SelectionType = "Unknown"
    /\ keys[2].returned

\* the results ApplyNameables can give for str and mp, and for applying twice
Applications(str, mp) == {ApplyNameables(str, mp, ord) : ord \in Orders(mp)}
ApplicationsTwice(str, mp) == UNION {Applications(t, mp) : t \in Applications(str, mp)}

\* mp with the keys ks added or reset, each standing for itself
WithKeys(mp, ks) == [k \in DOMAIN mp \cup ks |-> IF k \in ks THEN k ELSE mp[k]]

\* C17 (specification SpecWeaponNameables): for a ThisWeapon bonus
\* FillWithNameableKeys takes keys from the specialization qualifier only and
\* ApplyNameableKeys changes the specialization qualifier only, whatever
\* tokens the name and tags qualifiers hold; for every other SelectionType the
\* keys of the name, specialization and tags qualifiers are all taken and
\* the three qualifiers all hold the substitution (the specialization after
\* two applications). No other field of the bonus changes.
C17_ThisWeaponSkipsNameAndTags ==
    LET w == wbLast.bonus
        nq == w.NameCriteria.Qualifier
        sq == w.SpecializationCriteria.Qualifier
        tq == w.TagsCriteria.Qualifier
    IN  /\ wbLast.op = "fill" =>
              wbMap = WithKeys(wbLast.map,
                               IF w.SelectionType = "ThisWeapon" THEN TokenKeys(sq)
                               ELSE TokenKeys(nq) \cup TokenKeys(sq) \cup TokenKeys(tq))
        /\ wbLast.op = "apply" =>
              IF w.SelectionType = "ThisWeapon"
              THEN \E sp \in Applications(sq, wbLast.map) :
                      bonuses[1] = [w EXCEPT !.SpecializationCriteria.Qualifier = sp]
              ELSE \E nm \in Applications(nq, wbLast.map),
                      sp \in ApplicationsTwice(sq, wbLast.map),
                      tg \in Applications(tq, wbLast.map) :
                      bonuses[1] = [w EXCEPT !.NameCriteria.Qualifier = nm,
                                             !.SpecializationCriteria.Qualifier = sp,
                                             !.TagsCriteria.Qualifier = tg]

\* a ThisWeapon bonus named "@a@" with tags "@b@" kept both through
\* ApplyNameableKeys while its specialization "@a@" became "x"
C17_Witness ==
    /\ wbLast.op = "apply"
    /\ wbLast.bonus.SelectionType = "ThisWeapon"
    /\ wbLast.bonus.NameCriteria.Qualifier = <<At, "a", At>>
    /\ wbLast.bonus.TagsCriteria.Qualifier = <<At, "b", At>>
    /\ wbLast.bonus.SpecializationCriteria.Qualifier = <<At, "a", At>>
    /\ DOMAIN wbLast.map = {<<"a">>, <<"b">>}
    /\ wbLast.map[<<"a">>] = <<"x">>
    /\ bonuses[1].NameCriteria.Qualifier = <<At, "a", At>>
    /\ bonuses[1].TagsCriteria.Qualifier = <<At, "b", At>>
    /\ bonuses[1].SpecializationCriteria.Qualifier = <<"x">>

(***************************************************************************)
(* Claims about ExtractNameables and the marker count                      *)
(***************************************************************************)
\* C15 (specification Spec): after ExtractNameables on a text with more than
\* one '@', every odd-indexed segment before the last marker is a key of m
\* whose value is existing's value for it, or the segment itself when existing
\* has none; the segment after the last marker adds no key; every other key
\* of m is as it was, and none is removed.
C15_ExtractOddSegments ==
    (nmPc = "extracted" /\ Count(text, At) > 1) =>
        LET parts == Split(text, At)
            count == Count(text, At)
            cands == {parts[i + 1] : i \in {j \in 0..count : j % 2 = 1 /\ j < count}}
        IN  /\ Len(parts) = count + 1
            /\ \A k \in cands :
                  /\ k \in DOMAIN m
                  /\ m[k] = IF k \in DOMAIN existing THEN existing[k] ELSE k
            /\ DOMAIN m = DOMAIN m0 \cup cands
            /\ \A k \in DOMAIN m0 \ cands : m[k] = m0[k]

\* "@a@b@b" with existing a -> x and an empty map gave a -> x alone: the
\* "b" after the last marker is no key
C15_Witness ==
    /\ nmPc = "extracted"
    /\ text = <<At, "a", At, "b", At, "b">>
    /\ m0 = <<>>
    /\ DOMAIN existing = {<<"a">>}
    /\ DOMAIN m = {<<"a">>}
    /\ m[<<"a">>] = <<"x">>

\* C16 (specification Spec): for a text with no '@' or exactly one,
\* ExtractNameables leaves m as it was, for any existing map, and
\* ApplyNameables returns the text, for any replacement map.
C16_FewerThanTwoMarkers ==
    Count(text, At) <= 1 =>
        /\ nmPc = "extracted" => m = m0
        /\ nmPc \in {"applied", "reapplied"} => out = text
        /\ nmPc = "reapplied" => out2 = text

\* "@a" went through ExtractNameables and ApplyNameables with a map for a
C16_Witness ==
    /\ nmPc = "applied"
    /\ text = <<At, "a">>
    /\ <<"a">> \in DOMAIN m
    /\ m = m0 /\ existing # <<>>
    /\ out = text

(***************************************************************************)
(* Claims about the full path of the resolver                              *)
(***************************************************************************)
\* C19 (specification SpecSkillLevels): the full path calls CalculateLevel on
\* every skill the lookup returns, and the best level it finds is the highest
\* of the recomputed levels, whatever the cached levels are.
C19_FullPathRecomputesAll ==
    (res.path = "full" /\ res.s.DefaultType \in {SkillID, ParryID, BlockID}) =>
        /\ \A i \in Matching : <<i, res.excludes, 0>> \in res.calls
        /\ BestFound = MaxLevel({Recomputed(i) : i \in Matching})

\* the case C19 fails in: two skills match, the first at -3, the second
\* cached at -3 but worth 12 when recomputed; the full path answers -3
C19_StaleLowSkipped ==
    /\ res.path = "full" /\ res.s.DefaultType = SkillID /\ res.s.Modifier = 0
    /\ Matching = {1, 2}
    /\ Cached(1) = From(-3) /\ Recomputed(1) = From(-3)
    /\ Cached(2) = From(-3) /\ Recomputed(2) = From(12)
    /\ res.calls = {<<1, res.excludes, 0>>}
    /\ res.lvl = From(-3)

(***************************************************************************)
(* Claims about Clone                                                      *)
(***************************************************************************)
\* C20 (specification SpecClone): Clone returns a new object; the clone of a
\* ContainedWeightPrereq has the given Parent and the original's Type, Has
\* and WeightCriteria, the clone of a WeaponBonus equals the original in every
\* field; the original is as it was, its Parent included; and a field
\* assigned afterwards in one of the two leaves the other as it was.
C20_CloneIsIndependentCopy ==
    cloned.op # "none" =>
        LET orig == cloned.before[cloned.src]
            copy == cloned.after[cloned.dst]
        IN  /\ cloned.dst # cloned.src
            /\ cloned.dst \notin DOMAIN cloned.before
            /\ cloned.after[cloned.src] = orig
            /\ cloned.kind = "prereq" =>
                  /\ copy.Parent = cloned.parent
                  /\ copy.Type = orig.Type /\ copy.Has = orig.Has
                  /\ copy.WeightCriteria = orig.WeightCriteria
            /\ cloned.kind = "bonus" => copy = orig
            /\ cloned.op = "cloned" => heap = cloned.after
            /\ cloned.op = "changed" =>
                  /\ heap[cloned.changed] # cloned.after[cloned.changed]
                  /\ \A a \in DOMAIN heap \ {cloned.changed} : heap[a] = cloned.after[a]

\* a prereq with Parent listA was cloned under listB, then the clone's
\* qualifier was assigned: the original still has Parent listA and its qualifier
C20_Witness ==
    /\ cloned.op = "changed" /\ cloned.kind = "prereq"
    /\ cloned.changed = cloned.dst
    /\ cloned.before[1].Parent = "listA" /\ cloned.parent = "listB"
    /\ heap[2].Parent = "listB"
    /\ heap[2].WeightCriteria.Qualifier # heap[1].WeightCriteria.Qualifier
    /\ heap[1] = cloned.before[1]

(***************************************************************************)
(* Claims about SkillDefault.Equivalent (specification SpecEquivalent)     *)
(***************************************************************************)
\* what s.Equivalent(replacements, other) can return, over the orders in
\* which its four substitutions may visit the map
EquivalentResults(s, replacements, other, otherNil) ==
    {Equivalent(s, replacements, other, otherNil, ords) :
        ords \in [1..4 -> Orders(replacements)]}

WithoutLevels(s) == [s EXCEPT !.Level = 0, !.AdjLevel = 0, !.Points = 0]

\* C21 (specification SpecEquivalent): Equivalent is reflexive and
\* deterministic: a SkillDefault is equivalent to itself under every
\* replacement map, the result for a pair does not depend on the order in
\* which the map's keys are visited, it is the same when Level, AdjLevel and
\* Points are changed, and it is false when other is nil.
C21_EquivalentReflexiveDeterministic ==
    eq.called =>
        /\ eq.ref = "self" => eq.result
        /\ EquivalentResults(eq.s, eq.replacements, eq.other, eq.ref = "nil") = {eq.result}
        /\ EquivalentResults(WithoutLevels(eq.s), eq.replacements,
                             WithoutLevels(eq.other), eq.ref = "nil") = {eq.result}
        /\ eq.ref = "nil" => ~eq.result

\* the case C21 fails in: the name @a@b@ holds two overlapping keys, the two
\* substitutions of one call visit the map in different orders, and the
\* SkillDefault is found not to be equivalent to itself
C21_NotEquivalentToItself ==
    /\ eq.called /\ eq.ref = "self" /\ ~eq.result
    /\ eq.s.Name = <<At, "a", At, "b", At>>
    /\ eq.replacements = [k \in Keys |-> <<"x">>]

\* the parts of C21 that no order of the map changes: nil is never
\* equivalent, and SkillDefaults of different DefaultType or Modifier never are
C21_NilAndFieldsDecide ==
    eq.called =>
        /\ eq.ref = "nil" => ~eq.result
        /\ (eq.s.DefaultType # eq.other.DefaultType \/ eq.s.Modifier # eq.other.Modifier)
              => ~eq.result

(***************************************************************************)
(* Claims about SkillBased and the resolver (specification SpecSkillAttr)  *)
(***************************************************************************)
\* the level the last resolution's call returns on entity e
ResolvedOn(e) ==
    IF res.path = "full"
    THEN SkillLevel(res.s, e, res.replacements, res.requirePoints, res.excludes,
                    res.ruleOf20, 0).lvl
    ELSE SkillLevelFast(res.s, e, res.replacements, res.requirePoints, res.excludes,
                        res.ruleOf20)

\* The entities of SpecSkillAttr hold skills that match every default
\* resolved, at a level, and the attribute dx. A resolution went through the
\* matching-skill lookup when it answers otherwise on the entity without its
\* skills, and through the attribute lookup when it answers otherwise on the
\* entity without its attributes.
UsedSkillLookup == res.lvl # ResolvedOn([entity EXCEPT !.Skills = <<>>])
UsedAttributeLookup == res.lvl # ResolvedOn([entity EXCEPT !.Attributes = <<>>])

\* C22 (specification SpecSkillAttr): SkillBased() and the resolver agree on
\* every DefaultType: a default whose type is skill, parry or block after
\* trimming and lower-casing is resolved through the matching-skill lookup and
\* not through the attribute lookup, and any other default is resolved
\* without the matching-skill lookup.
C22_SkillBasedAgreesWithResolver ==
    Answered =>
        /\ SkillBased(res.s) => (UsedSkillLookup /\ ~UsedAttributeLookup)
        /\ ~SkillBased(res.s) => ~UsedSkillLookup

\* the case C22 fails in: the type "Skill" is skill-based, and is resolved as
\* the attribute of that name, which does not exist
C22_CapitalisedSkillByAttribute ==
    /\ Answered /\ res.s.DefaultType = "Skill" /\ SkillBased(res.s)
    /\ ~UsedSkillLookup
    /\ res.lvl = fxpMin

\* the part of C22 that holds: on the types the resolver's switch knows
\* (skill, parry, block, as written), and on the types that are not
\* skill-based, SkillBased() and the resolver agree
C22_AgreeOnExactTypes ==
    (Answered /\ (res.s.DefaultType \in {SkillID, ParryID, BlockID} \/ ~SkillBased(res.s))) =>
        /\ SkillBased(res.s) <=> UsedSkillLookup
        /\ SkillBased(res.s) => ~UsedAttributeLookup

(***************************************************************************)
(* Claims about the hash of differing SkillDefaults (specification SpecHash) *)
(***************************************************************************)
\* C23 (specification SpecHash): two SkillDefaults that differ in at least
\* one of DefaultType, Name, Specialization and Modifier feed different bytes
\* to the hasher.
C23_DifferentFieldsDifferentBytes ==
    BothDefaultsHashed =>
        (SourceDifferences(rules[1].sd, rules[2].sd) >= 1 => Written(1) # Written(2))

\* the case C23 fails in: name "a" with specialization "b", and name "ab"
\* with no specialization, feed the same bytes
C23_ShiftedBoundary ==
    /\ BothDefaultsHashed
    /\ rules[1].sd.Name = <<"a">> /\ rules[1].sd.Specialization = <<"b">>
    /\ rules[2].sd.Name = <<"a", "b">> /\ rules[2].sd.Specialization = <<>>
    /\ rules[1].sd.DefaultType = rules[2].sd.DefaultType
    /\ rules[1].sd.Modifier = rules[2].sd.Modifier
    /\ Written(1) = Written(2)

(***************************************************************************)
(* Claims about the specialization qualifier after ApplyNameableKeys       *)
(* (specification SpecWeaponNameables)                                     *)
(***************************************************************************)
\* C24 (specification SpecWeaponNameables): after ApplyNameableKeys the
\* specialization qualifier is one application of the substitution to the
\* qualifier as it was, with the map given, for a ThisWeapon bonus and for a
\* bonus of any other SelectionType alike.
C24_SpecializationAppliedOnce ==
    wbLast.op = "apply" =>
        bonuses[1].SpecializationCriteria.Qualifier
            \in Applications(wbLast.bonus.SpecializationCriteria.Qualifier, wbLast.map)

\* the case C24 fails in: a WithName bonus with the specialization "@@a@@"
\* and the map a -> "a"; one application gives "@a@", the bonus holds "a"
C24_AppliedTwice ==
    /\ wbLast.op = "apply"
    /\ wbLast.bonus.SelectionType = "WithName"
    /\ wbLast.bonus.SpecializationCriteria.Qualifier = <<At, At, "a", At, At>>
    /\ wbLast.map = [k \in {<<"a">>} |-> <<"a">>]
    /\ Applications(<<At, At, "a", At, At>>, wbLast.map) = {<<At, "a", At>>}
    /\ bonuses[1].SpecializationCriteria.Qualifier = <<"a">>

\* the part of C24 that holds: a ThisWeapon bonus holds one application
C24_ThisWeaponAppliedOnce ==
    (wbLast.op = "apply" /\ wbLast.bonus.SelectionType = "ThisWeapon") =>
        bonuses[1].SpecializationCriteria.Qualifier
            \in Applications(wbLast.bonus.SpecializationCriteria.Qualifier, wbLast.map)

(***************************************************************************)
(* Claims about Template.applyTemplateToSheet (specification               *)
(* SpecApplyTemplate)                                                      *)
(***************************************************************************)
\* C25 (specification SpecApplyTemplate): applyTemplateToSheet is
\* all-or-nothing. When it returns false the sheet's entity and tables are as
\* before the call and no undo edit was added. When it returns true, and the
\* sheet has an undo manager and both states were captured, exactly one undo
\* edit was added, whose undo restores the state before the call and whose
\* redo restores the state after it.
C25_AllOrNothing ==
    /\ (applied.called /\ ~applied.returned) =>
          (sheet.data = applied.before.data /\ sheet.edits = applied.before.edits)
    /\ (applied.called /\ applied.returned /\ applied.captured) =>
          /\ Len(sheet.edits) = Len(applied.before.edits) + 1
          /\ sheet.edits[Len(sheet.edits)].BeforeData = applied.before.data
          /\ ~sheet.undone => sheet.data = sheet.edits[Len(sheet.edits)].AfterData
          /\ sheet.undone => sheet.data = applied.before.data

\* the case C25 fails in: the existing ancestry was disabled on the user's
\* answer, then a picker was cancelled; the call returned false, the ancestry
\* stays disabled, no row was appended and there is no edit to undo it with
C25_DisabledThenCancelled ==
    /\ applied.called /\ ~applied.returned
    /\ applied.before.hasMgr
    /\ applied.before.data.ancestry = "active"
    /\ sheet.data.ancestry = "disabled"
    /\ sheet.data.rows = applied.before.data.rows
    /\ sheet.edits = <<>>

\* the parts of C25 that hold: a call that returns false appends no row and
\* adds no undo edit, and the undo edit of a call that returns true is as
\* the claim describes it
C25_NoRowsOnCancelAndOneEdit ==
    /\ (applied.called /\ ~applied.returned) =>
          (sheet.data.rows = applied.before.data.rows /\ sheet.edits = applied.before.edits)
    /\ (applied.called /\ applied.returned /\ applied.captured) =>
          /\ Len(sheet.edits) = Len(applied.before.edits) + 1
          /\ sheet.edits[Len(sheet.edits)].BeforeData = applied.before.data
          /\ ~sheet.undone => sheet.data = sheet.edits[Len(sheet.edits)].AfterData
          /\ sheet.undone => sheet.data = applied.before.data
    /\ (applied.called /\ ~applied.captured) => sheet.edits = applied.before.edits

(***************************************************************************)
(* Claims about Template.save (specification SpecSave)                     *)
(***************************************************************************)
\* C26 (specification SpecSave): over any sequence of edits and save calls,
\* after a successful save Modified() is false, the stored crc being the
\* CRC64 of the template as it is, and needsSaveAsPrompt is false; after a
\* failed or cancelled save the stored crc, the path and needsSaveAsPrompt
\* are as before the call; the Save-As path is taken exactly when forceSaveAs
\* or needsSaveAsPrompt is true; and needsSaveAsPrompt never changes from
\* false to true.
C26_SaveOutcomes ==
    /\ [](saved.op = "save" =>
            /\ saved.success =>
                  /\ ~Modified(doc)
                  /\ doc.crc = CRC64(doc.template)
                  /\ ~doc.needsSaveAsPrompt
            /\ ~saved.success =>
                  /\ doc.crc = saved.before.crc
                  /\ doc.path = saved.before.path
                  /\ doc.needsSaveAsPrompt = saved.before.needsSaveAsPrompt
            /\ saved.saveAs <=> (saved.forceSaveAs \/ saved.before.needsSaveAsPrompt))
    /\ [][~doc.needsSaveAsPrompt => ~doc'.needsSaveAsPrompt]_vars

\* a new template was edited, a first save was cancelled, and a second save,
\* not forced, took the Save-As path and succeeded: the template, modified
\* before the call, is unmodified under its new path and the prompt is cleared
C26_Witness ==
    /\ saved.op = "save" /\ saved.success /\ saved.saveAs /\ ~saved.forceSaveAs
    /\ saved.before.needsSaveAsPrompt /\ Modified(saved.before)
    /\ saved.before.path = "untitled.gct" /\ doc.path = "b.gct"
    /\ ~Modified(doc) /\ ~doc.needsSaveAsPrompt
====
